---- MODULE Spec2Model ----
(***************************************************************************)
(* Offline handover transfer: the multipart QR protocol                    *)
(* (src/src/lib/qr-multipart.ts) and the scanner that aggregates scanned   *)
(* chunks (src/unnamed/part_002, the QRScanner component).                 *)
(*                                                                         *)
(* A JavaScript string is a sequence of one-character strings.  A JSON     *)
(* value is a tagged record [t, v].                                        *)
(***************************************************************************)
EXTENDS Integers, Sequences, FiniteSets, TLC

\* ------------------------------------------------------------------------
\* Strings
\* ------------------------------------------------------------------------
Digits == <<"0", "1", "2", "3", "4", "5", "6", "7", "8", "9">>

DigitSet == {Digits[i] : i \in 1..10}

DigitVal(c) == (CHOOSE i \in 1..10 : Digits[i] = c) - 1

\* String(n) of a non-negative integer, as a template literal `${n}` prints it
RECURSIVE Dec(_)
Dec(n) == IF n < 10 THEN <<Digits[n + 1]>> ELSE Dec(n \div 10) \o <<Digits[(n % 10) + 1]>>

\* value of a non-empty run of decimal digits
RECURSIVE DigitsVal(_)
DigitsVal(s) ==
    IF Len(s) = 1 THEN DigitVal(s[1])
    ELSE 10 * DigitsVal(SubSeq(s, 1, Len(s) - 1)) + DigitVal(s[Len(s)])

Min(a, b) == IF a <= b THEN a ELSE b

\* String.prototype.slice(start, end) with 0 <= start, end (0-based, end exclusive)
Slice(s, start, end) == SubSeq(s, start + 1, Min(end, Len(s)))

\* String.prototype.indexOf(c, from): 0-based position of the first c at or
\* after position from, -1 when there is none
IndexOf(s, c, from) ==
    LET hits == {i \in (from + 1)..Len(s) : s[i] = c}
    IN  IF hits = {} THEN -1 ELSE (CHOOSE i \in hits : \A j \in hits : i <= j) - 1

StartsWith(s, p) == Len(s) >= Len(p) /\ SubSeq(s, 1, Len(p)) = p

\* concatenation of ss[lo..hi], a sequence of strings (Array.prototype.join(''))
RECURSIVE Flat(_, _, _)
Flat(ss, lo, hi) ==
    IF lo > hi THEN <<>>
    ELSE IF lo = hi THEN ss[lo]
    ELSE LET mid == (lo + hi) \div 2 IN Flat(ss, lo, mid) \o Flat(ss, mid + 1, hi)

Join(ss) == Flat(ss, 1, Len(ss))

\* ------------------------------------------------------------------------
\* JSON values
\* ------------------------------------------------------------------------
JStr(s) == [t |-> "str", v |-> s]
JNum(n) == [t |-> "num", v |-> n]
JNull == [t |-> "null", v |-> 0]
JBool(b) == [t |-> "bool", v |-> b]
JArr(xs) == [t |-> "arr", v |-> xs]
JObj(ms) == [t |-> "obj", v |-> ms]
Member(k, x) == [k |-> k, x |-> x]

QUOTE == "\""
BACKSLASH == "\\"

\* JSON.stringify of a string: quotes and backslashes are escaped
Escape(s) ==
    IF \A i \in 1..Len(s) : s[i] \notin {QUOTE, BACKSLASH} THEN s
    ELSE Join([i \in 1..Len(s) |->
                 IF s[i] \in {QUOTE, BACKSLASH} THEN <<BACKSLASH, s[i]>> ELSE <<s[i]>>])

Quoted(s) == <<QUOTE>> \o Escape(s) \o <<QUOTE>>

\* the texts with a comma between them
CommaJoin(ss) ==
    Join([i \in 1..Len(ss) |-> IF i = 1 THEN ss[i] ELSE <<",">> \o ss[i]])

RECURSIVE JSONstringify(_)
JSONstringify(x) ==
    CASE x.t = "str" -> Quoted(x.v)
      [] x.t = "num" -> Dec(x.v)
      [] x.t = "null" -> <<"n", "u", "l", "l">>
      [] x.t = "bool" -> IF x.v THEN <<"t", "r", "u", "e">> ELSE <<"f", "a", "l", "s", "e">>
      [] x.t = "arr" ->
            <<"[">> \o CommaJoin([i \in 1..Len(x.v) |-> JSONstringify(x.v[i])]) \o <<"]">>
      [] x.t = "obj" ->
            <<"{">> \o CommaJoin([i \in 1..Len(x.v) |->
                          Quoted(x.v[i].k) \o <<":">> \o JSONstringify(x.v[i].x)])
                    \o <<"}">>

\* ------------------------------------------------------------------------
\* JSON.parse.  A parse result is [ok, x, p]: ok is FALSE where JSON.parse
\* throws a SyntaxError, x is the value and p the position after it.
\* Numbers are the non-negative integers; the escapes are \" and \\.
\* ------------------------------------------------------------------------
Fail == [ok |-> FALSE, x |-> JNull, p |-> 0]

Ok(x, p) == [ok |-> TRUE, x |-> x, p |-> p]

SkipWs(s, p) ==
    IF p > Len(s) \/ s[p] # " " THEN p
    ELSE LET non == {i \in p..Len(s) : s[i] # " "}
         IN  IF non = {} THEN Len(s) + 1 ELSE CHOOSE i \in non : \A j \in non : i <= j

\* the quote at j is escaped: an odd number of backslashes precedes it
EscapedAt(s, j) ==
    IF s[j - 1] # BACKSLASH THEN FALSE
    ELSE LET run == CHOOSE r \in 1..(j - 1) :
                        /\ \A q \in 1..r : s[j - q] = BACKSLASH
                        /\ (r = j - 1 \/ s[j - r - 1] # BACKSLASH)
         IN  (run % 2) = 1

\* a backslash at i that is not itself escaped introduces an escape
Introducers(s) ==
    {i \in 1..Len(s) : s[i] = BACKSLASH /\ (i = 1 \/ ~EscapedAt(s, i))}

\* the body without the introducing backslashes, each of which must be
\* followed by a quote or a backslash
Unescaped(s, intro) ==
    IF \A i \in intro : i < Len(s) /\ s[i + 1] \in {QUOTE, BACKSLASH}
    THEN [ok |-> TRUE, s |-> Join([i \in 1..Len(s) |-> IF i \in intro THEN <<>> ELSE <<s[i]>>])]
    ELSE [ok |-> FALSE, s |-> <<>>]

\* the string a literal's body stands for: [ok, s]
Unescape(s) ==
    IF \A i \in 1..Len(s) : s[i] # BACKSLASH THEN [ok |-> TRUE, s |-> s]
    ELSE Unescaped(s, Introducers(s))

\* the literal whose closing quote is at j
StringUpTo(p, j, u) == [ok |-> u.ok, s |-> u.s, p |-> j + 1]

\* the literal that closes at the first of the unescaped quotes
StringClosedBy(s, p, close) ==
    IF close = {} THEN [ok |-> FALSE, s |-> <<>>, p |-> 0]
    ELSE \* CHOOSE of a set with one element: the first closing quote
         LET j == CHOOSE i \in close : \A m \in close : i <= m
         IN  StringUpTo(p, j, Unescape(SubSeq(s, p + 1, j - 1)))

\* a string literal starting at the quote at position p: [ok, s, p]
ParseString(s, p) ==
    IF p > Len(s) \/ s[p] # QUOTE THEN [ok |-> FALSE, s |-> <<>>, p |-> 0]
    ELSE StringClosedBy(s, p, {j \in (p + 1)..Len(s) : s[j] = QUOTE /\ ~EscapedAt(s, j)})

ParseNumber(s, p) ==
    LET non == {i \in p..Len(s) : s[i] \notin DigitSet}
        e == IF non = {} THEN Len(s) + 1 ELSE CHOOSE i \in non : \A j \in non : i <= j
    IN  IF e = p \/ (s[p] = "0" /\ e > p + 1) THEN Fail
        ELSE Ok(JNum(DigitsVal(SubSeq(s, p, e - 1))), e)

ParseLiteral(s, p, word, x) ==
    IF SubSeq(s, p, Min(p + Len(word) - 1, Len(s))) = word THEN Ok(x, p + Len(word)) ELSE Fail

StringValue(r) == IF r.ok THEN Ok(JStr(r.s), r.p) ELSE Fail

RECURSIVE ParseValue(_, _), ParseElements(_, _, _), ParseMembers(_, _, _)
RECURSIVE ValueAt(_, _), ElementsAfter(_, _, _, _), MemberValue(_, _, _, _)
RECURSIVE MembersAfter(_, _, _), MemberAt(_, _, _, _)
ParseValue(s, p0) == ValueAt(s, SkipWs(s, p0))

\* the value that starts at the non-blank position p
ValueAt(s, p) ==
    IF p > Len(s) THEN Fail
    ELSE CASE s[p] = QUOTE -> StringValue(ParseString(s, p))
           [] s[p] \in DigitSet -> ParseNumber(s, p)
           [] s[p] = "n" -> ParseLiteral(s, p, <<"n", "u", "l", "l">>, JNull)
           [] s[p] = "t" -> ParseLiteral(s, p, <<"t", "r", "u", "e">>, JBool(TRUE))
           [] s[p] = "f" -> ParseLiteral(s, p, <<"f", "a", "l", "s", "e">>, JBool(FALSE))
           [] s[p] = "[" -> ParseElements(s, SkipWs(s, p + 1), <<>>)
           [] s[p] = "{" -> ParseMembers(s, SkipWs(s, p + 1), <<>>)
           [] OTHER -> Fail

\* the elements of an array from position p on, acc the elements read so far
ParseElements(s, p, acc) ==
    IF acc = <<>> /\ p <= Len(s) /\ s[p] = "]" THEN Ok(JArr(<<>>), p + 1)
    ELSE ElementsAfter(s, p, acc, ParseValue(s, p))

\* r is the element read, q the position after it
ElementsAfter(s, p, acc, r) ==
    IF ~r.ok THEN Fail
    ELSE LET q == SkipWs(s, r.p)
         IN  IF q > Len(s) THEN Fail
             ELSE IF s[q] = "]" THEN Ok(JArr(Append(acc, r.x)), q + 1)
             ELSE IF s[q] = "," THEN ElementsAfter(s, q + 1, Append(acc, r.x), ParseValue(s, q + 1))
             ELSE Fail

\* the members of an object from position p on, acc the members read so far
ParseMembers(s, p, acc) ==
    IF acc = <<>> /\ p <= Len(s) /\ s[p] = "}" THEN Ok(JObj(<<>>), p + 1)
    ELSE MemberAt(s, p, acc, ParseString(s, SkipWs(s, p)))

\* k is the key read
MemberAt(s, p, acc, k) ==
    IF ~k.ok THEN Fail
    ELSE LET c == SkipWs(s, k.p)
         IN  IF c > Len(s) \/ s[c] # ":" THEN Fail
             ELSE MemberValue(s, acc, k, ParseValue(s, c + 1))

\* r is the value read for the key k
MemberValue(s, acc, k, r) ==
    IF ~r.ok THEN Fail ELSE MembersAfter(s, SkipWs(s, r.p), Append(acc, Member(k.s, r.x)))

\* q is the position after the member, ms the members with it
MembersAfter(s, q, ms) ==
    IF q > Len(s) THEN Fail
    ELSE IF s[q] = "}" THEN Ok(JObj(ms), q + 1)
    ELSE IF s[q] = "," THEN MemberAt(s, q + 1, ms, ParseString(s, SkipWs(s, q + 1)))
    ELSE Fail

\* the value read, when nothing but blanks follows it
WholeText(s, r) ==
    IF r.ok /\ SkipWs(s, r.p) = Len(s) + 1 THEN [ok |-> TRUE, x |-> r.x]
    ELSE [ok |-> FALSE, x |-> JNull]

\* JSON.parse(s): [ok, x]; ok is FALSE where it throws
JSONparse(s) == WholeText(s, ParseValue(s, 1))

\* property access x.key of a parsed value: the value of the last member with
\* that key, UNDEFINED when x is not an object or has no such member
UNDEFINED == [t |-> "undefined", v |-> 0]

Get(x, key) ==
    IF x.t # "obj" THEN UNDEFINED
    ELSE LET hits == {i \in 1..Len(x.v) : x.v[i].k = key}
         IN  IF hits = {} THEN UNDEFINED
             ELSE x.v[CHOOSE i \in hits : \A j \in hits : j <= i].x

\* JavaScript truthiness of a JSON value
Truthy(x) ==
    CASE x.t = "undefined" -> FALSE
      [] x.t = "null" -> FALSE
      [] x.t = "bool" -> x.v
      [] x.t = "num" -> x.v # 0
      [] x.t = "str" -> x.v # <<>>
      [] OTHER -> TRUE

\* ------------------------------------------------------------------------
\* lz-string, as qr-multipart.ts uses it: compressToBase64 maps a text to a
\* string over the base64 alphabet whose length is a multiple of 4 and
\* decompressFromBase64 inverts it; the code here is a fixed-width code of
\* two base64 characters per character of the text, padded with "=".
\* ------------------------------------------------------------------------
B64 == <<"A", "B", "C", "D", "E", "F", "G", "H", "I", "J", "K", "L", "M",
         "N", "O", "P", "Q", "R", "S", "T", "U", "V", "W", "X", "Y", "Z",
         "a", "b", "c", "d", "e", "f", "g", "h", "i", "j", "k", "l", "m",
         "n", "o", "p", "q", "r", "s", "t", "u", "v", "w", "x", "y", "z",
         "0", "1", "2", "3", "4", "5", "6", "7", "8", "9", "+", "/">>

B64Set == {B64[i] : i \in 1..64}

B64Val == [c \in B64Set |-> (CHOOSE i \in 1..64 : B64[i] = c) - 1]

\* the characters a text may hold
Alphabet == B64 \o <<"{", "}", "[", "]", QUOTE, ":", ",", BACKSLASH, " ", "-", ".", "_", "=">>

AlphabetSet == {Alphabet[i] : i \in 1..Len(Alphabet)}

CharCode == [c \in AlphabetSet |-> (CHOOSE i \in 1..Len(Alphabet) : Alphabet[i] = c) - 1]

compressToBase64(text) ==
    LET body == [i \in 1..(2 * Len(text)) |->
                   LET k == CharCode[text[(i + 1) \div 2]]
                   IN  IF i % 2 = 1 THEN B64[(k \div 64) + 1] ELSE B64[(k % 64) + 1]]
    IN  IF Len(body) % 4 = 0 THEN body ELSE body \o <<"=", "=">>

\* [ok, s]: ok is FALSE where decompressFromBase64 returns null or a text
\* that is no output of the compressor
decompressFromBase64(input) ==
    LET n == Len(input)
        pad == IF n >= 2 /\ input[n] = "=" /\ input[n - 1] = "=" THEN 2 ELSE 0
        m == n - pad
        wellFormed == /\ n > 0
                      /\ n % 4 = 0
                      /\ \A i \in 1..m : input[i] \in B64Set
                      /\ \A i \in 1..(m \div 2) :
                            64 * B64Val[input[2 * i - 1]] + B64Val[input[2 * i]] < Len(Alphabet)
    IN  IF ~wellFormed THEN [ok |-> FALSE, s |-> <<>>]
        ELSE [ok |-> TRUE,
              s |-> [i \in 1..(m \div 2) |->
                       Alphabet[64 * B64Val[input[2 * i - 1]] + B64Val[input[2 * i]] + 1]]]

\* ------------------------------------------------------------------------
\* qr-multipart.ts
\* ------------------------------------------------------------------------
MAX_CHUNK_SIZE == 900

PROTOCOL_PREFIX == <<"A", "H", ":">>

HEADER_RESERVE == 10

\* a QRChunk
Chunk(index, total, data) == [index |-> index, total |-> total, data |-> data]

\* the wire form `${PROTOCOL_PREFIX}${index}:${total}:${data}`
ChunkString(index, total, data) ==
    PROTOCOL_PREFIX \o Dec(index) \o <<":">> \o Dec(total) \o <<":">> \o data

\* Math.ceil(a / b) for a >= 0, b > 0
Ceil(a, b) == (a + b - 1) \div b

\* encodeChunks with the chunk count taken as floor(L / size) + 1
encodeChunksTrailing(compressed) ==
    IF compressed = <<>> THEN [throws |-> TRUE, chunks |-> <<>>]
    ELSE IF Len(compressed) + HEADER_RESERVE <= MAX_CHUNK_SIZE
    THEN [throws |-> FALSE, chunks |-> <<ChunkString(1, 1, compressed)>>]
    ELSE LET chunkDataSize == MAX_CHUNK_SIZE - HEADER_RESERVE
             totalChunks == (Len(compressed) \div chunkDataSize) + 1
         IN  [throws |-> FALSE,
              chunks |-> [k \in 1..totalChunks |->
                            LET i == k - 1
                                start == i * chunkDataSize
                                end == Min(start + chunkDataSize, Len(compressed))
                            IN  ChunkString(i + 1, totalChunks, Slice(compressed, start, end))]]

\* encodeMultiPartPayload from the compressed string on, for a maximal chunk
\* size: [throws, chunks]
encodeChunksWith(compressed, maxChunkSize) ==
    IF compressed = <<>> THEN [throws |-> TRUE, chunks |-> <<>>]
    ELSE IF Len(compressed) + HEADER_RESERVE <= maxChunkSize
    THEN [throws |-> FALSE, chunks |-> <<ChunkString(1, 1, compressed)>>]
    ELSE LET chunkDataSize == maxChunkSize - HEADER_RESERVE
             totalChunks == Ceil(Len(compressed), chunkDataSize)
         IN  [throws |-> FALSE,
              chunks |-> [k \in 1..totalChunks |->
                            LET i == k - 1
                                start == i * chunkDataSize
                                end == Min(start + chunkDataSize, Len(compressed))
                            IN  ChunkString(i + 1, totalChunks, Slice(compressed, start, end))]]

\* encodeMultiPartPayload from the compressed string on: [throws, chunks]
encodeChunks(compressed) == encodeChunksWith(compressed, MAX_CHUNK_SIZE)

encodeMultiPartPayload(payload) == encodeChunks(compressToBase64(JSONstringify(payload)))

\* parseInt(s, 10): [nan, n].  Leading blanks are skipped, a sign is read,
\* then the longest run of digits; what follows the digits is ignored.
parseInt(s) ==
    LET p == SkipWs(s, 1)
        signed == p <= Len(s) /\ s[p] \in {"-", "+"}
        d == IF signed THEN p + 1 ELSE p
        non == {i \in d..Len(s) : s[i] \notin DigitSet}
        e == IF non = {} THEN Len(s) + 1 ELSE CHOOSE i \in non : \A j \in non : i <= j
    IN  IF e = d THEN [nan |-> TRUE, n |-> 0]
        ELSE LET v == DigitsVal(SubSeq(s, d, e - 1))
             IN  [nan |-> FALSE, n |-> IF signed /\ s[p] = "-" THEN 0 - v ELSE v]

\* parseQRChunk with the data taken from the second separator on
parseQRChunkKeepColon(raw) ==
    IF ~StartsWith(raw, PROTOCOL_PREFIX) THEN JNull
    ELSE LET content == Slice(raw, Len(PROTOCOL_PREFIX), Len(raw))
             firstColon == IndexOf(content, ":", 0)
             secondColon == IndexOf(content, ":", firstColon + 1)
         IN  IF firstColon = -1 \/ secondColon = -1 THEN JNull
             ELSE LET index == parseInt(Slice(content, 0, firstColon))
                      total == parseInt(Slice(content, firstColon + 1, secondColon))
                      data == Slice(content, secondColon, Len(content))
                  IN  IF index.nan \/ total.nan \/ index.n < 1 \/ index.n > total.n
                      THEN JNull
                      ELSE Chunk(index.n, total.n, data)

\* parseQRChunk(raw): a QRChunk, or JNull for null
parseQRChunk(raw) ==
    IF ~StartsWith(raw, PROTOCOL_PREFIX) THEN JNull
    ELSE LET content == Slice(raw, Len(PROTOCOL_PREFIX), Len(raw))
             firstColon == IndexOf(content, ":", 0)
             secondColon == IndexOf(content, ":", firstColon + 1)
         IN  IF firstColon = -1 \/ secondColon = -1 THEN JNull
             ELSE LET index == parseInt(Slice(content, 0, firstColon))
                      total == parseInt(Slice(content, firstColon + 1, secondColon))
                      data == Slice(content, secondColon + 1, Len(content))
                  IN  IF index.nan \/ total.nan \/ index.n < 1 \/ index.n > total.n
                      THEN JNull
                      ELSE Chunk(index.n, total.n, data)

\* the copy left in arrival order
SortByIndexNone(chunks) == chunks

\* [...chunks].sort((a, b) => a.index - b.index): a stable sort of a copy
SortByIndex(chunks) ==
    LET n == Len(chunks)
        rank(i) == Cardinality({j \in 1..n : \/ chunks[j].index < chunks[i].index
                                             \/ chunks[j].index = chunks[i].index /\ j < i}) + 1
    IN  [k \in 1..n |-> chunks[CHOOSE i \in 1..n : rank(i) = k]]

\* decodeMultiPartPayload without the verification of the index sequence
decodeNoVerify(chunks) ==
    IF Len(chunks) = 0 THEN [ret |-> JNull, arg |-> chunks]
    ELSE LET total == chunks[1].total
             sorted == SortByIndex(chunks)
         IN  IF Len(sorted) # total THEN [ret |-> JNull, arg |-> chunks]
             ELSE LET compressed == Join([i \in 1..Len(sorted) |-> sorted[i].data])
                      json == decompressFromBase64(compressed)
                  IN  IF ~json.ok \/ json.s = <<>> THEN [ret |-> JNull, arg |-> chunks]
                      ELSE LET parsed == JSONparse(json.s)
                           IN  [ret |-> IF parsed.ok THEN parsed.x ELSE JNull, arg |-> chunks]

\* decodeMultiPartPayload(chunks): [ret, arg], ret the value returned (JNull
\* for null) and arg the caller's array as the call leaves it
decodeMultiPartPayload(chunks) ==
    IF Len(chunks) = 0 THEN [ret |-> JNull, arg |-> chunks]
    ELSE LET total == chunks[1].total
             sorted == SortByIndex(chunks)
         IN  IF Len(sorted) # total THEN [ret |-> JNull, arg |-> chunks]
             ELSE IF \E i \in 0..(total - 1) : sorted[i + 1].index # i + 1
             THEN [ret |-> JNull, arg |-> chunks]
             ELSE LET compressed == Join([i \in 1..Len(sorted) |-> sorted[i].data])
                      json == decompressFromBase64(compressed)
                  IN  IF ~json.ok \/ json.s = <<>> THEN [ret |-> JNull, arg |-> chunks]
                      ELSE LET parsed == JSONparse(json.s)
                           IN  [ret |-> IF parsed.ok THEN parsed.x ELSE JNull, arg |-> chunks]

\* ------------------------------------------------------------------------
\* State
\* ------------------------------------------------------------------------
VARIABLES
    pc,             \* position of the caller of the protocol functions
    payload,        \* encodeMultiPartPayload: its argument
    compressed,     \* encodeMultiPartPayload: the local `compressed`
    encoded,        \* encodeMultiPartPayload: the strings returned
    chunkList,      \* decodeMultiPartPayload: the caller's array
    result,         \* decodeMultiPartPayload: the value returned
    raw,            \* parseQRChunk: its argument
    parsed,         \* parseQRChunk: the value returned
    isScanning,     \* QRScanner state
    chunks,         \* QRScanner state: Map index -> QRChunk, in insertion order
    totalChunks,    \* QRScanner state: <<>> for null, <<n>> for n
    lastScanned,    \* QRScanner state: <<>> for null, <<s>> for the string s
    error,          \* QRScanner state: <<>> for null, <<message>>
    scannerRef,     \* scannerRef.current: "null" or "instance"
    camera,         \* the Html5Qrcode instance: "off", "running", "stopping"
    cbLastScanned,  \* lastScanned as captured by the handleScan given to start()
    stopsPending,   \* stopScanning calls waiting for scanner.stop()
    delivered,      \* the payloads passed to onComplete in this session
    decodeAttempts, \* calls of decodeMultiPartPayload made in this session
    scanned,        \* the raw values the camera delivered in this session
    lastRaw,        \* the raw value of the previous scan event of the session
    scanCount,      \* scan events so far
    sessions,       \* startScanning calls so far
    mounted,        \* the QRScanner is mounted (the modal is open in receive mode)
    receiverId,     \* BulkHandoverModal state
    cbReceiverId,   \* receiverId as captured by the onComplete given to start()
    received,       \* the payloads passed to onReceive
    pastedData,     \* BulkHandoverModal state
    toast,          \* the title of the last toast of handleManualPaste, <<>> for none
    sessionKey,     \* sessionStorage 'acutehandoff-key': 0 for none, else the key
    keysGenerated,  \* crypto.subtle.generateKey calls so far
    store,          \* localStorage: item name -> stored value
    tasks,          \* the storage calls in progress, per slot
    hist,           \* the storage calls that have returned, in order of return
    logBase,        \* the audit entries stored before the first call
    patients,         \* PatientProvider: useState patients, [id, identity, clinical]
    identities,       \* PatientProvider: identitiesRef.current, id -> identity
    currentPatientId, \* PatientProvider: useState currentPatientId, <<>> for null
    isLoaded,         \* PatientProvider: useState isLoaded
    loading,          \* the loadPatientListClinical call of the load effect
    saveDue,          \* the save effect is to run: patients or isLoaded changed
    saving,           \* the savePatientList calls that have not yet written
    created,          \* the patient records created so far
    reloads           \* the page reloads so far

protoVars == <<pc, payload, compressed, encoded, chunkList, result, raw, parsed>>

scanVars == <<isScanning, chunks, totalChunks, lastScanned, error, scannerRef, camera,
              cbLastScanned, stopsPending, delivered, decodeAttempts, scanned, lastRaw,
              scanCount, sessions, mounted, receiverId, cbReceiverId, received>>

pasteVars == <<pastedData, toast>>

storeVars == <<sessionKey, keysGenerated, store, tasks, hist, logBase>>

provVars == <<patients, identities, currentPatientId, isLoaded, loading, saveDue, saving,
              created, reloads>>

restVars == <<pasteVars, storeVars, provVars>>

vars == <<pc, payload, compressed, encoded, chunkList, result, raw, parsed,
          isScanning, chunks, totalChunks, lastScanned, error, scannerRef, camera,
          cbLastScanned, stopsPending, delivered, decodeAttempts, scanned, lastRaw,
          scanCount, sessions, mounted, receiverId, cbReceiverId, received,
          pastedData, toast, sessionKey, keysGenerated, store, tasks, hist, logBase,
          patients, identities, currentPatientId, isLoaded, loading, saveDue, saving,
          created, reloads>>

\* the value of a variable that takes no part in a specification
NONE == <<>>

\* QRScanner as mounted: the useState and useRef initial values
ScannerInit ==
    /\ isScanning = FALSE
    /\ chunks = <<>>
    /\ totalChunks = <<>>
    /\ lastScanned = <<>>
    /\ error = <<>>
    /\ scannerRef = "null"
    /\ camera = "off"
    /\ cbLastScanned = <<>>
    /\ stopsPending = 0
    /\ delivered = <<>>
    /\ decodeAttempts = 0
    /\ scanned = {}
    /\ lastRaw = <<>>
    /\ scanCount = 0
    /\ sessions = 0
    /\ mounted = TRUE
    /\ receiverId = <<>>
    /\ cbReceiverId = <<>>
    /\ received = <<>>

PasteIdle ==
    /\ pastedData = <<>>
    /\ toast = <<>>

StoreIdle ==
    /\ sessionKey = 0
    /\ keysGenerated = 0
    /\ store = <<>>
    /\ tasks = <<>>
    /\ hist = <<>>
    /\ logBase = <<>>

ProvIdle ==
    /\ patients = <<>>
    /\ identities = <<>>
    /\ currentPatientId = <<>>
    /\ isLoaded = FALSE
    /\ loading = <<>>
    /\ saveDue = FALSE
    /\ saving = <<>>
    /\ created = 0
    /\ reloads = 0

RestIdle == PasteIdle /\ StoreIdle /\ ProvIdle

ProtoIdle ==
    /\ pc = "idle"
    /\ payload = NONE
    /\ compressed = NONE
    /\ encoded = NONE
    /\ chunkList = NONE
    /\ result = NONE
    /\ raw = NONE
    /\ parsed = NONE

\* ------------------------------------------------------------------------
\* Framing: encodeMultiPartPayload from its local `compressed` on, for the
\* lengths compressToBase64 can return (multiples of 4) around every multiple
\* of the chunk data size, up to MaxTotal chunks
\* ------------------------------------------------------------------------
MaxTotal == 100

FrameLengths ==
    UNION {LET lo == 4 * (((MAX_CHUNK_SIZE - HEADER_RESERVE) * m) \div 4) IN {lo, lo + 4}
           : m \in 1..MaxTotal}

Base64Text(n) == [i \in 1..n |-> B64[((7 * i) % 64) + 1]]

InitFrame ==
    /\ pc = "compressed"
    /\ \E n \in FrameLengths : compressed = Base64Text(n)
    /\ payload = NONE /\ encoded = NONE /\ chunkList = NONE /\ result = NONE
    /\ raw = NONE /\ parsed = NONE
    /\ ScannerInit
    /\ RestIdle

EncodeChunks ==
    /\ pc = "compressed"
    /\ LET r == encodeChunks(compressed)
       IN  /\ encoded' = r.chunks
           /\ pc' = IF r.throws THEN "threw" ELSE "encoded"
    /\ UNCHANGED <<payload, compressed, chunkList, result, raw, parsed>>
    /\ UNCHANGED <<scanVars, restVars>>

NextFrame == EncodeChunks

SpecFrame == InitFrame /\ [][NextFrame]_vars

\* the data field of the i-th of n encoded chunk strings
DataOf(s, i, n) == SubSeq(s, Len(ChunkString(i, n, <<>>)) + 1, Len(s))

\* C5: a compressed string of length L is framed as one chunk 1/1 when
\* L + 10 <= 900 and otherwise as ceil(L / 890) chunks, indexed 1..total in
\* list order with the same total, whose data fields are non-empty, at most
\* 890 characters long and concatenate in index order to the compressed
\* string; L = 1780 gives exactly 2 chunks.
C5_Framing ==
    pc = "encoded" =>
        LET L == Len(compressed)
            n == Len(encoded)
        IN  /\ n = IF L + 10 <= 900 THEN 1 ELSE (L + 889) \div 890
            /\ \A i \in 1..n :
                  /\ StartsWith(encoded[i], ChunkString(i, n, <<>>))
                  /\ Len(DataOf(encoded[i], i, n)) >= 1
                  /\ Len(DataOf(encoded[i], i, n)) <= 890
            /\ Join([i \in 1..n |-> DataOf(encoded[i], i, n)]) = compressed
            /\ (L = 1780 => n = 2)

C5_Witness == pc = "encoded" /\ Len(compressed) = 1780 /\ Len(encoded) = 2

\* C6: every encoded chunk string, header included, has at most
\* MAX_CHUNK_SIZE = 900 characters.
C6_ChunkSizeBound ==
    pc = "encoded" => \A i \in 1..Len(encoded) : Len(encoded[i]) <= 900

\* ------------------------------------------------------------------------
\* Payloads (MultiPartPayload, PatientIdentity, ClinicalData as JSON values)
\* ------------------------------------------------------------------------
K_patients == <<"p", "a", "t", "i", "e", "n", "t", "s">>
K_identity == <<"i", "d", "e", "n", "t", "i", "t", "y">>
K_clinical == <<"c", "l", "i", "n", "i", "c", "a", "l">>
K_sessionToken == <<"s", "e", "s", "s", "i", "o", "n", "T", "o", "k", "e", "n">>
K_timestamp == <<"t", "i", "m", "e", "s", "t", "a", "m", "p">>
K_name == <<"n", "a", "m", "e">>
K_age == <<"a", "g", "e">>
K_allergico == <<"a", "l", "l", "e", "r", "g", "i", "c", "o">>
K_situation == <<"s", "i", "t", "u", "a", "t", "i", "o", "n">>
K_pendingExams == <<"p", "e", "n", "d", "i", "n", "g", "E", "x", "a", "m", "s">>

Patient(identity, clinical) ==
    JObj(<<Member(K_identity, identity), Member(K_clinical, clinical)>>)

MultiPartPayload(list, sessionToken, timestamp) ==
    JObj(<<Member(K_patients, JArr(list)),
           Member(K_sessionToken, JStr(sessionToken)),
           Member(K_timestamp, JStr(timestamp))>>)

PatientIdentity(name, age, allergico) ==
    JObj(<<Member(K_name, JStr(name)), Member(K_age, age), Member(K_allergico, JBool(allergico))>>)

ClinicalData(situation, pendingExams) ==
    JObj(<<Member(K_situation, JStr(situation)), Member(K_pendingExams, JArr(pendingExams))>>)

MaxPatients == 3

LongLen == 400

LongText(n) == [i \in 1..n |-> B64[((3 * i) % 26) + 27]]

IdentityA == PatientIdentity(<<"a">>, JNull, FALSE)

IdentityB == PatientIdentity(<<"b", QUOTE, BACKSLASH>>, JNum(70), TRUE)

ClinicalShort == ClinicalData(<<>>, <<>>)

ClinicalLong == ClinicalData(LongText(LongLen), <<JStr(<<"l", "a", "b">>)>>)

PatientPool ==
    {Patient(IdentityA, ClinicalShort), Patient(IdentityB, ClinicalLong),
     Patient(IdentityB, ClinicalShort)}

Timestamp == <<"2", "0", "2", "6">>

Payloads ==
    {MultiPartPayload(ps, tok, Timestamp) :
        ps \in UNION {[1..n -> PatientPool] : n \in 0..MaxPatients},
        tok \in {<<>>, <<"T", "1">>}}

\* ------------------------------------------------------------------------
\* Round trip: encode a payload, parse every string, decode the chunks
\* ------------------------------------------------------------------------
InitRoundTrip ==
    /\ pc = "payload"
    /\ payload \in Payloads
    /\ compressed = NONE /\ encoded = NONE /\ chunkList = NONE /\ result = NONE
    /\ raw = NONE /\ parsed = NONE
    /\ ScannerInit
    /\ RestIdle

Encode ==
    /\ pc = "payload"
    /\ LET r == encodeMultiPartPayload(payload)
       IN  /\ encoded' = r.chunks
           /\ pc' = IF r.throws THEN "threw" ELSE "encoded"
    /\ compressed' = compressToBase64(JSONstringify(payload))
    /\ UNCHANGED <<payload, chunkList, result, raw, parsed>>
    /\ UNCHANGED <<scanVars, restVars>>

ParseAll ==
    /\ pc = "encoded"
    /\ chunkList' = [i \in 1..Len(encoded) |-> parseQRChunk(encoded[i])]
    /\ pc' = "chunks"
    /\ UNCHANGED <<payload, compressed, encoded, result, raw, parsed>>
    /\ UNCHANGED <<scanVars, restVars>>

\* a call decodeMultiPartPayload(chunkList); a null among the chunks makes
\* the call throw a TypeError
Decode ==
    /\ pc = "chunks"
    /\ IF \E i \in 1..Len(chunkList) : chunkList[i] = JNull
       THEN pc' = "threw" /\ UNCHANGED <<chunkList, result>>
       ELSE LET r == decodeMultiPartPayload(chunkList)
            IN  /\ result' = r.ret
                /\ chunkList' = r.arg
                /\ pc' = "decoded"
    /\ UNCHANGED <<payload, compressed, encoded, raw, parsed>>
    /\ UNCHANGED <<scanVars, restVars>>

NextRoundTrip == Encode \/ ParseAll \/ Decode

SpecRoundTrip == InitRoundTrip /\ [][NextRoundTrip]_vars

\* C1: decoding the parsed strings of encodeMultiPartPayload(P) returns a
\* payload equal to P field for field, patients in the same order.
C1_RoundTrip == pc = "decoded" => result = payload

C1_Witness ==
    /\ pc = "decoded"
    /\ Len(encoded) >= 3
    /\ Len(Get(payload, K_patients).v) >= 2
    /\ result = payload

\* ------------------------------------------------------------------------
\* Decoding of arbitrary chunk lists: the chunks are the pieces of one
\* compressed payload cut in 1..MaxPieces parts, with the right total or a
\* different one, and chunks with no data
\* ------------------------------------------------------------------------
MaxPieces == 3

MaxListLen == 3

DecodePayload == MultiPartPayload(<<Patient(IdentityA, ClinicalShort)>>, <<"T", "1">>, Timestamp)

DecodeCompressed == compressToBase64(JSONstringify(DecodePayload))

Piece(c, n, i) ==
    LET size == Ceil(Len(c), n) IN Slice(c, (i - 1) * size, i * size)

DecodeUniverse ==
    UNION {{Chunk(i, t, Piece(DecodeCompressed, n, i)) : i \in 1..n, t \in {n, n + 1}}
           : n \in 1..MaxPieces}
    \cup {Chunk(i, 2, <<>>) : i \in 1..2}

InitDecode ==
    /\ pc = "chunks"
    /\ chunkList \in UNION {[1..n -> DecodeUniverse] : n \in 0..MaxListLen}
    /\ payload = NONE /\ compressed = NONE /\ encoded = NONE /\ result = NONE
    /\ raw = NONE /\ parsed = NONE
    /\ ScannerInit
    /\ RestIdle

NextDecode == Decode

SpecDecode == InitDecode /\ [][NextDecode]_vars

\* the permutations of a list
Perms(l) ==
    LET n == Len(l)
    IN  {[i \in 1..n |-> l[f[i]]] :
            f \in {g \in [1..n -> 1..n] : \A i, j \in 1..n : i # j => g[i] # g[j]}}

\* indices exactly 1..total, all chunks with the same total
CompleteValid(l) ==
    /\ Len(l) >= 1
    /\ \A i \in 1..Len(l) : l[i].total = l[1].total
    /\ Len(l) = l[1].total
    /\ {l[i].index : i \in 1..Len(l)} = 1..l[1].total

\* C2: for a complete, valid chunk set the result of decodeMultiPartPayload
\* is the same for every permutation of the list, and the call leaves the
\* caller's list as it was.
C2_OrderIndependence ==
    [][(pc = "chunks" /\ pc' = "decoded" /\ CompleteValid(chunkList)) =>
          /\ chunkList' = chunkList
          /\ \A q \in Perms(chunkList) : decodeMultiPartPayload(q).ret = result']_vars

C2_Witness ==
    /\ pc = "decoded"
    /\ CompleteValid(chunkList)
    /\ Len(chunkList) = 3
    /\ chunkList[1].index = 3
    /\ result = DecodePayload

\* the list is empty or lacks some index in 1..total
LacksIndex(l) ==
    \/ Len(l) = 0
    \/ \E k \in 1..l[1].total : \A i \in 1..Len(l) : l[i].index # k

\* C3: decodeMultiPartPayload returns null for the empty list and for every
\* list that lacks some index in 1..total, also when a repeated index makes
\* the length equal to total.
C3_IncompleteRejected == (pc = "decoded" /\ LacksIndex(chunkList)) => result = JNull

C3_Witness ==
    /\ pc = "decoded"
    /\ Len(chunkList) = 2
    /\ chunkList[1].total = 2
    /\ chunkList[1].index = chunkList[2].index
    /\ result = JNull

\* C4: decodeMultiPartPayload returns null whenever some chunk has a total
\* different from the first chunk's total.
C4_MixedTotalsRejected ==
    (pc = "decoded" /\ \E i \in 1..Len(chunkList) : chunkList[i].total # chunkList[1].total)
        => result = JNull

\* ------------------------------------------------------------------------
\* Parsing of arbitrary strings
\* ------------------------------------------------------------------------
MaxBody == 5

ParseAlphabet == {"0", "1", "2", ":", "x"}

ParsePrefixes == {<<>>, PROTOCOL_PREFIX, <<"x">> \o PROTOCOL_PREFIX}

RawInputs ==
    {p \o b : p \in ParsePrefixes, b \in UNION {[1..n -> ParseAlphabet] : n \in 0..MaxBody}}

InitParse ==
    /\ pc = "raw"
    /\ raw \in RawInputs
    /\ payload = NONE /\ compressed = NONE /\ encoded = NONE /\ chunkList = NONE
    /\ result = NONE /\ parsed = NONE
    /\ ScannerInit
    /\ RestIdle

ParseOne ==
    /\ pc = "raw"
    /\ parsed' = parseQRChunk(raw)
    /\ pc' = "parsed"
    /\ UNCHANGED <<payload, compressed, encoded, chunkList, result, raw>>
    /\ UNCHANGED <<scanVars, restVars>>

NextParse == ParseOne

SpecParse == InitParse /\ [][NextParse]_vars

IsNumeral(s) == Len(s) >= 1 /\ \A i \in 1..Len(s) : s[i] \in DigitSet

\* the string is 'AH:' index ':' total ':' data with index and total decimal
\* numerals and 1 <= index <= total
WellFormedRaw(s) ==
    /\ Len(s) >= 3 /\ s[1] = "A" /\ s[2] = "H" /\ s[3] = ":"
    /\ \E i, j \in 4..Len(s) :
          /\ i < j /\ s[i] = ":" /\ s[j] = ":"
          /\ \A k \in 4..(j - 1) : k # i => s[k] # ":"
          /\ IsNumeral(SubSeq(s, 4, i - 1))
          /\ IsNumeral(SubSeq(s, i + 1, j - 1))
          /\ 1 <= DigitsVal(SubSeq(s, 4, i - 1))
          /\ DigitsVal(SubSeq(s, 4, i - 1)) <= DigitsVal(SubSeq(s, i + 1, j - 1))

\* C7: parseQRChunk returns null for every string without the marker at its
\* start, without two separators after it, or whose index or total text is
\* not a positive integer with 1 <= index <= total; a chunk it returns has
\* 1 <= index <= total.
C7_ParseRejectsMalformed ==
    (pc = "parsed" /\ parsed # JNull) =>
        /\ WellFormedRaw(raw)
        /\ 1 <= parsed.index /\ parsed.index <= parsed.total

\* ------------------------------------------------------------------------
\* QRScanner (src/unnamed/part_002) inside BulkHandoverModal
\* ------------------------------------------------------------------------
MaxScans == 3

MaxSessions == 2

\* the transfer being scanned: a payload framed in two chunks by a sender
\* whose maximal chunk size is ScanMaxChunk
ScanMaxChunk == 200

ScanPayload == MultiPartPayload(<<Patient(IdentityB, ClinicalShort)>>, <<"T", "1">>, Timestamp)

ScanChunks ==
    encodeChunksWith(compressToBase64(JSONstringify(ScanPayload)), ScanMaxChunk).chunks

\* a string that is neither a chunk nor JSON
GarbageRaw == <<"x">>

\* the one chunk 1/1 of some other transfer, whose data is no compressed
\* payload
BadChunkRaw == ChunkString(1, 1, <<"x", "x", "x", "x">>)

\* a legacy single-patient JSON object, without sessionToken and timestamp
LegacyRaw ==
    JSONstringify(JObj(<<Member(K_identity, IdentityA), Member(K_clinical, ClinicalShort)>>))

\* the values the camera can deliver
ScanRaws == ScanChunks \o <<GarbageRaw, BadChunkRaw, LegacyRaw>>

\* new Date().toISOString()
NowISO == <<"2", "0", "2", "7">>

\* next.set(chunk.index, chunk) on a Map kept in insertion order
MapSet(m, c) ==
    IF \E i \in 1..Len(m) : m[i].index = c.index
    THEN [i \in 1..Len(m) |-> IF m[i].index = c.index THEN c ELSE m[i]]
    ELSE Append(m, c)

\* stopScanning up to its await, on st = [ref, cam, pend, scanning]: a running
\* camera begins to stop; stop() on a camera that is not running throws, the
\* catch clears the ref
StopCall(st) ==
    IF st.ref = "instance"
    THEN IF st.cam = "running"
         THEN [st EXCEPT !.cam = "stopping", !.pend = @ + 1]
         ELSE [st EXCEPT !.ref = "null", !.scanning = FALSE]
    ELSE [st EXCEPT !.scanning = FALSE]

\* the payload handleScan builds from a legacy object
LegacyPayload(legacy) ==
    JObj(<<Member(K_patients,
                  JArr(<<Patient(Get(legacy, K_identity), Get(legacy, K_clinical))>>)),
           Member(K_sessionToken,
                  IF Truthy(Get(legacy, K_sessionToken)) THEN Get(legacy, K_sessionToken)
                  ELSE JStr(<<>>)),
           Member(K_timestamp,
                  IF Truthy(Get(legacy, K_timestamp)) THEN Get(legacy, K_timestamp)
                  ELSE JStr(NowISO))>>)

\* handleScan(decodedText) as the closure with the captured lastScanned cb
\* runs it on the chunk map prev: what it sets and whether it completes.
\* kind is "ignored", "invalid" (setError('QR non valido')), "miss",
\* "legacy", "chunk" (stored, set not complete), "complete" or "failed".
handleScanResult(decodedText, cb, prev) ==
    IF cb = <<decodedText>> THEN [kind |-> "ignored", next |-> prev, payload |-> JNull]
    ELSE LET chunk == parseQRChunk(decodedText) IN
         IF chunk = JNull
         THEN LET legacy == JSONparse(decodedText) IN
              IF ~legacy.ok \/ legacy.x = JNull
              THEN [kind |-> "invalid", next |-> prev, payload |-> JNull]
              ELSE IF Truthy(Get(legacy.x, K_identity)) /\ Truthy(Get(legacy.x, K_clinical))
              THEN [kind |-> "legacy", next |-> prev, payload |-> LegacyPayload(legacy.x)]
              ELSE [kind |-> "miss", next |-> prev, payload |-> JNull]
         ELSE LET next == MapSet(prev, chunk) IN
              IF Len(next) = chunk.total
              THEN LET p == decodeMultiPartPayload(next).ret
                   IN  IF Truthy(p) THEN [kind |-> "complete", next |-> next, payload |-> p]
                       ELSE [kind |-> "failed", next |-> next, payload |-> JNull]
              ELSE [kind |-> "chunk", next |-> next, payload |-> JNull]

InitScan ==
    /\ ProtoIdle
    /\ ScannerInit
    /\ RestIdle

\* the user types the receiver id (BulkHandoverModal)
TypeReceiverId ==
    /\ mounted
    /\ receiverId = <<>>
    /\ receiverId' = <<"R">>
    /\ UNCHANGED <<isScanning, chunks, totalChunks, lastScanned, error, scannerRef, camera,
                   cbLastScanned, stopsPending, delivered, decodeAttempts, scanned, lastRaw,
                   scanCount, sessions, mounted, cbReceiverId, received>>
    /\ UNCHANGED <<protoVars, restVars>>

\* startScanning: the button is shown while not scanning.  The handleScan
\* given to start() is the one of the render the click happens in: it holds
\* the lastScanned and the onComplete (with its receiverId) of that render.
\* Pressed only once the camera of the previous session has stopped.
StartScanning ==
    /\ mounted
    /\ ~isScanning
    /\ camera = "off"
    /\ stopsPending = 0
    /\ sessions < MaxSessions
    /\ chunks' = <<>>
    /\ totalChunks' = <<>>
    /\ lastScanned' = <<>>
    /\ scannerRef' = "instance"
    /\ cbLastScanned' = lastScanned
    /\ cbReceiverId' = receiverId
    /\ \E started \in BOOLEAN :
          IF started
          THEN error' = <<>> /\ isScanning' = TRUE /\ camera' = "running"
          ELSE error' = <<"Errore fotocamera">> /\ isScanning' = FALSE /\ camera' = "off"
    /\ delivered' = <<>>
    /\ decodeAttempts' = 0
    /\ scanned' = {}
    /\ lastRaw' = <<>>
    /\ sessions' = sessions + 1
    /\ UNCHANGED <<stopsPending, mounted, receiverId, received, scanCount>>
    /\ UNCHANGED <<protoVars, restVars>>

\* the 'Ferma Scanner' button: stopScanning up to its await
ClickStop ==
    /\ mounted
    /\ isScanning
    /\ LET st == StopCall([ref |-> scannerRef, cam |-> camera, pend |-> stopsPending,
                           scanning |-> isScanning])
       IN  /\ scannerRef' = st.ref
           /\ camera' = st.cam
           /\ stopsPending' = st.pend
           /\ isScanning' = st.scanning
    /\ UNCHANGED <<chunks, totalChunks, lastScanned, error, cbLastScanned, delivered,
                   decodeAttempts, scanned, lastRaw, scanCount, sessions, mounted, receiverId,
                   cbReceiverId, received>>
    /\ UNCHANGED <<protoVars, restVars>>

\* scanner.stop() resolves: stopScanning after its await
StopDone ==
    /\ stopsPending > 0
    /\ camera' = "off"
    /\ scannerRef' = "null"
    /\ isScanning' = FALSE
    /\ stopsPending' = stopsPending - 1
    /\ UNCHANGED <<chunks, totalChunks, lastScanned, error, cbLastScanned, delivered,
                   decodeAttempts, scanned, lastRaw, scanCount, sessions, mounted, receiverId,
                   cbReceiverId, received>>
    /\ UNCHANGED <<protoVars, restVars>>

\* the modal is closed by the user: its effect clears receiverId, the
\* QRScanner unmounts and its cleanup effect calls stopScanning
UserClose ==
    /\ mounted
    /\ mounted' = FALSE
    /\ LET st == StopCall([ref |-> scannerRef, cam |-> camera, pend |-> stopsPending,
                           scanning |-> isScanning])
       IN  /\ scannerRef' = st.ref
           /\ camera' = st.cam
           /\ stopsPending' = st.pend
           /\ isScanning' = st.scanning
    /\ receiverId' = <<>>
    /\ UNCHANGED <<chunks, totalChunks, lastScanned, error, cbLastScanned, delivered,
                   decodeAttempts, scanned, lastRaw, scanCount, sessions,
                   cbReceiverId, received>>
    /\ UNCHANGED <<protoVars, restVars>>

\* The camera delivers ScanRaws[id] to the registered handleScan, while it
\* runs or while a stop is pending.  On a mounted component the state
\* updates and the setChunks updater take effect; on an unmounted one the
\* setters do nothing and the updater runs or not.  A completion calls
\* onComplete (handleReceiveComplete with the captured receiverId: without
\* an id it only shows a toast, with one it calls onReceive and onClose,
\* which clears receiverId and unmounts the scanner) and then stopScanning.
Scan(id) ==
    /\ camera \in {"running", "stopping"}
    /\ scanCount < MaxScans
    /\ scanned' = scanned \cup {id}
    /\ lastRaw' = <<id>>
    /\ scanCount' = scanCount + 1
    /\ \E runs \in {TRUE} \cup {mounted},
          r \in {handleScanResult(ScanRaws[id], cbLastScanned, chunks)} :
       LET isChunk == r.kind \in {"chunk", "complete", "failed"}
           acts == r.kind # "ignored" /\ (runs \/ ~isChunk)
           completes == acts /\ r.kind \in {"legacy", "complete"}
           closes == completes /\ cbReceiverId # <<>>
           st0 == [ref |-> scannerRef, cam |-> camera, pend |-> stopsPending,
                   scanning |-> isScanning]
           st1 == IF completes THEN StopCall(st0) ELSE st0
           st2 == IF closes /\ mounted THEN StopCall(st1) ELSE st1
       IN  /\ IF mounted /\ r.kind # "ignored"
              THEN /\ lastScanned' = <<ScanRaws[id]>>
                   /\ error' = CASE r.kind = "invalid" -> <<"QR non valido">>
                                 [] r.kind = "failed" -> <<"Errore decodifica dati">>
                                 [] OTHER -> <<>>
                   /\ totalChunks' = IF isChunk THEN <<parseQRChunk(ScanRaws[id]).total>>
                                     ELSE totalChunks
                   /\ chunks' = r.next
              ELSE UNCHANGED <<lastScanned, error, totalChunks, chunks>>
           /\ decodeAttempts' = IF acts /\ r.kind \in {"complete", "failed"}
                                THEN decodeAttempts + 1 ELSE decodeAttempts
           /\ delivered' = IF completes THEN Append(delivered, r.payload) ELSE delivered
           /\ received' = IF closes THEN Append(received, r.payload) ELSE received
           /\ mounted' = IF closes THEN FALSE ELSE mounted
           /\ receiverId' = IF closes /\ mounted THEN <<>> ELSE receiverId
           /\ scannerRef' = st2.ref
           /\ camera' = st2.cam
           /\ stopsPending' = st2.pend
           /\ isScanning' = st2.scanning
    /\ UNCHANGED <<cbLastScanned, sessions, cbReceiverId>>
    /\ UNCHANGED <<protoVars, restVars>>

ScanEvent == \E id \in 1..Len(ScanRaws) : Scan(id)

NextScan == TypeReceiverId \/ StartScanning \/ ClickStop \/ StopDone \/ UserClose \/ ScanEvent

SpecScan == InitScan /\ [][NextScan]_vars

\* ------------------------------------------------------------------------
\* Zod schemas of the handover data (safeParse(x).success)
\* ------------------------------------------------------------------------
K_bedNumber == <<"b", "e", "d", "N", "u", "m", "b", "e", "r">>

K_admissionDate == <<"a", "d", "m", "i", "s", "s", "i", "o", "n", "D", "a", "t", "e">>

K_triage == <<"t", "r", "i", "a", "g", "e">>

K_comorbidities == <<"c", "o", "m", "o", "r", "b", "i", "d", "i", "t", "i", "e", "s">>

K_sociale == <<"s", "o", "c", "i", "a", "l", "e">>

K_esito == <<"e", "s", "i", "t", "o">>

K_background == <<"b", "a", "c", "k", "g", "r", "o", "u", "n", "d">>

K_assessment == <<"a", "s", "s", "e", "s", "s", "m", "e", "n", "t">>

K_recommendation == <<"r", "e", "c", "o", "m", "m", "e", "n", "d", "a", "t", "i", "o", "n">>

TRIAGE_LEVELS ==
    {<<"r", "o", "s", "s", "o">>,
     <<"a", "r", "a", "n", "c", "i", "o", "n", "e">>,
     <<"a", "z", "z", "u", "r", "r", "o">>,
     <<"v", "e", "r", "d", "e">>,
     <<"b", "i", "a", "n", "c", "o">>}

COMORBIDITIES ==
    {<<"B", "P", "C", "O">>,
     <<"I", "R", "C">>,
     <<"D", "M", "2">>,
     <<"I", "P", "A">>,
     <<"C", "I", "C">>,
     <<"F", "A">>}

ESITI ==
    {<<"D">>,
     <<"O", "B">>,
     <<"O", "B", "/", "D">>,
     <<"O", "B", "/", "R">>,
     <<"R">>}

PENDING_TYPES ==
    {<<"l", "a", "b">>,
     <<"i", "m", "a", "g", "i", "n", "g">>,
     <<"c", "o", "n", "s", "u", "l", "e", "n", "z", "a">>,
     <<"p", "o", "s", "t", "o", "L", "e", "t", "t", "o">>}

\* z.string().max(n)
ZString(x, n) == x.t = "str" /\ Len(x.v) <= n

\* z.enum(values)
ZEnum(x, values) == x.t = "str" /\ x.v \in values

\* z.array(z.enum(values))
ZEnumArray(x, values) == x.t = "arr" /\ \A i \in 1..Len(x.v) : ZEnum(x.v[i], values)

\* z.boolean()
ZBoolean(x) == x.t = "bool"

PatientIdentitySchema(x) ==
    /\ x.t = "obj"
    /\ ZString(Get(x, K_name), 200)
    /\ LET age == Get(x, K_age)
       IN  age.t = "null" \/ (age.t = "num" /\ age.v >= 0 /\ age.v <= 150)
    /\ ZString(Get(x, K_bedNumber), 50)
    /\ ZString(Get(x, K_admissionDate), 50)
    /\ ZEnum(Get(x, K_triage), TRIAGE_LEVELS)
    /\ ZEnumArray(Get(x, K_comorbidities), COMORBIDITIES)
    /\ ZBoolean(Get(x, K_allergico))
    /\ ZBoolean(Get(x, K_sociale))
    /\ LET esito == Get(x, K_esito)
       IN  esito.t = "null" \/ ZEnum(esito, ESITI)

ClinicalDataSchema(x) ==
    /\ x.t = "obj"
    /\ ZString(Get(x, K_situation), 10000)
    /\ ZString(Get(x, K_background), 10000)
    /\ ZString(Get(x, K_assessment), 10000)
    /\ ZString(Get(x, K_recommendation), 10000)
    /\ ZEnumArray(Get(x, K_pendingExams), PENDING_TYPES)
    /\ ZString(Get(x, K_timestamp), 100)

MultiPartPayloadSchema(x) ==
    /\ x.t = "obj"
    /\ LET list == Get(x, K_patients)
       IN  /\ list.t = "arr"
           /\ Len(list.v) <= 100
           /\ \A i \in 1..Len(list.v) :
                 /\ list.v[i].t = "obj"
                 /\ PatientIdentitySchema(Get(list.v[i], K_identity))
                 /\ ClinicalDataSchema(Get(list.v[i], K_clinical))
    /\ ZString(Get(x, K_sessionToken), 100)
    /\ ZString(Get(x, K_timestamp), 100)

\* ------------------------------------------------------------------------
\* Manual paste: BulkHandoverModal.handleManualPaste
\* ------------------------------------------------------------------------

\* a PatientIdentity with every field of the schema
FullIdentity(name) ==
    JObj(<<Member(K_name, JStr(name)), Member(K_age, JNum(70)),
           Member(K_bedNumber, JStr(<<"7">>)), Member(K_admissionDate, JStr(Timestamp)),
           Member(K_triage, JStr(<<"v", "e", "r", "d", "e">>)),
           Member(K_comorbidities, JArr(<<JStr(<<"F", "A">>)>>)),
           Member(K_allergico, JBool(FALSE)), Member(K_sociale, JBool(TRUE)),
           Member(K_esito, JNull)>>)

\* the same without the required field name
BrokenIdentity ==
    JObj(<<Member(K_age, JNum(70)),
           Member(K_bedNumber, JStr(<<"7">>)), Member(K_admissionDate, JStr(Timestamp)),
           Member(K_triage, JStr(<<"v", "e", "r", "d", "e">>)),
           Member(K_comorbidities, JArr(<<JStr(<<"F", "A">>)>>)),
           Member(K_allergico, JBool(FALSE)), Member(K_sociale, JBool(TRUE)),
           Member(K_esito, JNull)>>)

FullClinical ==
    JObj(<<Member(K_situation, JStr(<<"s">>)), Member(K_background, JStr(<<>>)),
           Member(K_assessment, JStr(<<>>)), Member(K_recommendation, JStr(<<>>)),
           Member(K_pendingExams, JArr(<<JStr(<<"l", "a", "b">>)>>)),
           Member(K_timestamp, JStr(Timestamp))>>)

\* a transfer of one valid patient, and one of three valid entries and one
\* entry that lacks a required field
ValidTransfer ==
    MultiPartPayload(<<Patient(FullIdentity(<<"a">>), FullClinical)>>, <<"T", "1">>, Timestamp)

MixedTransfer ==
    MultiPartPayload(<<Patient(FullIdentity(<<"a">>), FullClinical),
                       Patient(FullIdentity(<<"b">>), FullClinical),
                       Patient(BrokenIdentity, FullClinical),
                       Patient(FullIdentity(<<"c">>), FullClinical)>>, <<"T", "1">>, Timestamp)

\* handleCopyData: JSON.stringify(qrChunks)
ChunkArrayText(transfer) ==
    LET qrChunks == encodeMultiPartPayload(transfer).chunks
    IN  JSONstringify(JArr([i \in 1..Len(qrChunks) |-> JStr(qrChunks[i])]))

\* legacy single-patient texts: the members identity and clinical, and
\* sessionToken and timestamp absent, empty or given
LegacyTexts ==
    {JSONstringify(JObj(<<Member(K_identity, identity)>> \o clinical \o token \o stamp)) :
        identity \in {FullIdentity(<<"a">>), BrokenIdentity, JStr(<<>>)},
        clinical \in {<<>>, <<Member(K_clinical, FullClinical)>>},
        token \in {<<>>, <<Member(K_sessionToken, JStr(<<>>))>>,
                   <<Member(K_sessionToken, JStr(<<"T", "1">>))>>},
        stamp \in {<<>>, <<Member(K_timestamp, JStr(<<>>))>>,
                   <<Member(K_timestamp, JStr(Timestamp))>>}}

\* what the user can paste
PasteInputs ==
    LegacyTexts
    \cup {ChunkArrayText(ValidTransfer), ChunkArrayText(MixedTransfer)}
    \cup {<<" ">>, <<"x">>, <<"n", "u", "l", "l">>, <<"[", "]">>, <<"[", "1", "]">>}

\* s.trim() is empty
IsBlank(s) == \A i \in 1..Len(s) : s[i] \in {" ", "\t", "\n", "\r"}

\* handleManualPaste on the modal's pastedData and receiverId:
\* [title, payload, calls], title the toast shown (<<>> for none), calls
\* whether onReceive(payload, receiverId) and onClose() are called.  The
\* build decides whether require() exists in the browser; without it the
\* chunk-array branch throws into the catch.
handleManualPasteResult(data, id, hasRequire) ==
    LET none(title) == [title |-> title, payload |-> JNull, calls |-> FALSE]
        invalid == none(<<"D", "a", "t", "i", " ", "n", "o", "n", " ", "v", "a", "l", "i", "d", "i">>)
        legacyBranch(legacy) ==
            IF legacy.t = "null" THEN invalid
            ELSE IF Truthy(Get(legacy, K_identity)) /\ Truthy(Get(legacy, K_clinical))
            THEN [title |-> <<>>, payload |-> LegacyPayload(legacy), calls |-> TRUE]
            ELSE invalid
        decodedBranch(list, decoded) ==
            IF Truthy(decoded) THEN [title |-> <<>>, payload |-> decoded, calls |-> TRUE]
            ELSE legacyBranch(list)
        arrayBranch(list) ==
            IF ~hasRequire THEN invalid
            ELSE IF \E i \in 1..Len(list.v) : list.v[i].t # "str" THEN invalid
            ELSE decodedBranch(list,
                    decodeMultiPartPayload(
                        SelectSeq([i \in 1..Len(list.v) |-> parseQRChunk(list.v[i].v)],
                                  LAMBDA c : c # JNull)).ret)
        parsedBranch(chunksJson) ==
            IF ~chunksJson.ok THEN invalid
            ELSE IF chunksJson.x.t = "arr" THEN arrayBranch(chunksJson.x)
            ELSE legacyBranch(chunksJson.x)
    IN  IF IsBlank(data) THEN none(<<"N", "e", "s", "s", "u", "n", " ", "d", "a", "t", "o">>)
        ELSE IF IsBlank(id) THEN none(<<"I", "D", " ", "r", "i", "c", "h", "i", "e", "s", "t", "o">>)
        ELSE parsedBranch(JSONparse(data))

\* the user edits the paste field: setPastedData
SetPastedData(d) ==
    /\ mounted
    /\ pastedData' = d
    /\ UNCHANGED toast
    /\ UNCHANGED <<protoVars, scanVars, storeVars, provVars>>

\* the 'Importa' button: handleManualPaste.  onClose closes the modal, whose
\* effect clears receiverId and pastedData.
ManualPaste ==
    /\ mounted
    /\ \E hasRequire \in BOOLEAN :
       \E r \in {handleManualPasteResult(pastedData, receiverId, hasRequire)} :
          /\ toast' = r.title
          /\ received' = IF r.calls THEN Append(received, r.payload) ELSE received
          /\ mounted' = IF r.calls THEN FALSE ELSE mounted
          /\ receiverId' = IF r.calls THEN <<>> ELSE receiverId
          /\ pastedData' = IF r.calls THEN <<>> ELSE pastedData
    /\ UNCHANGED <<isScanning, chunks, totalChunks, lastScanned, error, scannerRef, camera,
                   cbLastScanned, stopsPending, delivered, decodeAttempts, scanned, lastRaw,
                   scanCount, sessions, cbReceiverId>>
    /\ UNCHANGED <<protoVars, storeVars, provVars>>

InitPaste ==
    /\ ProtoIdle
    /\ ScannerInit
    /\ RestIdle

NextPaste == (\E d \in PasteInputs : SetPastedData(d)) \/ TypeReceiverId \/ ManualPaste

SpecPaste == InitPaste /\ [][NextPaste]_vars

\* ------------------------------------------------------------------------
\* Local encrypted store: crypto (getOrCreateKey, encryptData, decryptData)
\* and storage (clinical data, identities, audit log)
\* ------------------------------------------------------------------------
CLINICAL_DATA_KEY == "acutehandoff-clinical"

AUDIT_LOG_KEY == "acutehandoff-audit"

IDENTITIES_KEY == "acutehandoff-identities"

PATIENT_LIST_KEY == "acutehandoff-patients"

ARCHIVE_KEY == "acutehandoff-archive"

\* localStorage values: getItem gives null, a text that is no output of
\* encryptData, or the output of encryptData(text) under a key (AES-GCM with
\* a fresh iv: only the key that encrypted it decrypts it)
Absent == [kind |-> "none", key |-> 0, text |-> <<>>]

Plain(s) == [kind |-> "plain", key |-> 0, text |-> s]

encryptData(key, data) == [kind |-> "cipher", key |-> key, text |-> data]

\* decryptData(encryptedData) with the key getOrCreateKey gave: [ok, s],
\* not ok when atob or crypto.subtle.decrypt throws
decryptData(key, encryptedData) ==
    IF encryptedData.kind = "cipher" /\ encryptedData.key = key
    THEN [ok |-> TRUE, s |-> encryptedData.text]
    ELSE [ok |-> FALSE, s |-> <<>>]

\* !data for what getItem returned
Missing(data) == data.kind = "none" \/ (data.kind = "plain" /\ data.text = <<>>)

\* JSON.parse(data) of a stored value taken as text: base64 text is no JSON
ParseStored(data) ==
    IF data.kind = "plain" THEN JSONparse(data.text) ELSE [ok |-> FALSE, x |-> JNull]

\* getOrCreateKey whose generated key is the same in every session
getOrCreateKeyFixed(stored, generated) ==
    IF stored # 0 THEN [key |-> stored, created |-> FALSE]
    ELSE [key |-> 1, created |-> TRUE]

\* getOrCreateKey up to its first await: the stored key, or a key to be
\* generated, exported and stored
getOrCreateKey(stored, generated) ==
    IF stored # 0 THEN [key |-> stored, created |-> FALSE]
    ELSE [key |-> generated + 1, created |-> TRUE]

\* the key of an earlier session, lost with its sessionStorage
OldKey == 0 - 1

K_hash == <<"h", "a", "s", "h">>

K_receiverId == <<"r", "e", "c", "e", "i", "v", "e", "r", "I", "d">>

K_direction == <<"d", "i", "r", "e", "c", "t", "i", "o", "n">>

DIRECTIONS == {<<"s", "e", "n", "t">>, <<"r", "e", "c", "e", "i", "v", "e", "d">>}

\* a zod object schema's output: the keys of its shape, in its order
Strip(x, keys) == JObj([i \in 1..Len(keys) |-> Member(keys[i], Get(x, keys[i]))])

HandoverLogEntryKeys == <<K_hash, K_timestamp, K_receiverId, K_direction>>

HandoverLogEntrySchema(x) ==
    /\ x.t = "obj"
    /\ Get(x, K_hash).t = "str"
    /\ Get(x, K_timestamp).t = "str"
    /\ Get(x, K_receiverId).t = "str"
    /\ ZEnum(Get(x, K_direction), DIRECTIONS)

\* z.array(HandoverLogEntrySchema).safeParse(rawData): [success, data]
AuditArraySafeParse(rawData) ==
    IF rawData.t = "arr" /\ \A i \in 1..Len(rawData.v) : HandoverLogEntrySchema(rawData.v[i])
    THEN [success |-> TRUE,
          data |-> JArr([i \in 1..Len(rawData.v) |-> Strip(rawData.v[i], HandoverLogEntryKeys)])]
    ELSE [success |-> FALSE, data |-> JArr(<<>>)]

ClinicalDataKeys ==
    <<K_situation, K_background, K_assessment, K_recommendation, K_pendingExams, K_timestamp>>

PatientIdentityKeys ==
    <<K_name, K_age, K_bedNumber, K_admissionDate, K_triage, K_comorbidities, K_allergico,
      K_sociale, K_esito>>

K_id == <<"i", "d">>

K_reminders == <<"r", "e", "m", "i", "n", "d", "e", "r", "s">>

K_createdAt == <<"c", "r", "e", "a", "t", "e", "d", "A", "t">>

K_updatedAt == <<"u", "p", "d", "a", "t", "e", "d", "A", "t">>

K_archivedAt == <<"a", "r", "c", "h", "i", "v", "e", "d", "A", "t">>

\* a PatientRecord as createPatientRecord builds it
PatientRecord(id, identity, clinical) ==
    JObj(<<Member(K_id, JStr(id)), Member(K_identity, identity), Member(K_clinical, clinical),
           Member(K_reminders, JArr(<<>>)), Member(K_createdAt, JStr(Timestamp)),
           Member(K_updatedAt, JStr(Timestamp))>>)

\* an ArchivedPatient: the record with the time it was archived
ArchivedPatient(id, identity, clinical) ==
    JObj(PatientRecord(id, identity, clinical).v \o <<Member(K_archivedAt, JStr(Timestamp))>>)

PatientListClinicalKeys == <<K_id, K_clinical, K_reminders, K_createdAt, K_updatedAt>>

ArchivedPatientKeys ==
    <<K_id, K_identity, K_clinical, K_reminders, K_createdAt, K_updatedAt, K_archivedAt>>

\* savePatientList: patients.map(p => ({id, clinical, reminders, createdAt,
\* updatedAt}))
dataToStore(list) ==
    JArr([i \in 1..Len(list.v) |-> Strip(list.v[i], PatientListClinicalKeys)])

\* the element of the stored patient list: id, clinical data, optional
\* reminders and the two times
PatientListClinicalSchema(x) ==
    /\ x.t = "obj"
    /\ Get(x, K_id).t = "str"
    /\ ClinicalDataSchema(Get(x, K_clinical))
    /\ Get(x, K_reminders).t \in {"arr", "undefined"}
    /\ Get(x, K_createdAt).t = "str"
    /\ Get(x, K_updatedAt).t = "str"

\* the element of the stored archive: a patient record with archivedAt
ArchivedPatientSchema(x) ==
    /\ x.t = "obj"
    /\ Get(x, K_id).t = "str"
    /\ PatientIdentitySchema(Get(x, K_identity))
    /\ ClinicalDataSchema(Get(x, K_clinical))
    /\ Get(x, K_reminders).t = "arr"
    /\ Get(x, K_createdAt).t = "str"
    /\ Get(x, K_updatedAt).t = "str"
    /\ Get(x, K_archivedAt).t = "str"

\* loadClinicalData after decryptData: the value returned
loadClinicalDataResult(decrypted) ==
    IF ~decrypted.ok THEN JNull
    ELSE LET rawData == JSONparse(decrypted.s)
         IN  IF rawData.ok /\ ClinicalDataSchema(rawData.x)
             THEN Strip(rawData.x, ClinicalDataKeys) ELSE JNull

\* Object.entries(rawData) for a parsed value, as members; null throws
ObjectEntries(rawData) ==
    CASE rawData.t = "obj" -> rawData.v
      [] rawData.t = "arr" -> [i \in 1..Len(rawData.v) |-> Member(Dec(i - 1), rawData.v[i])]
      [] rawData.t = "str" ->
            [i \in 1..Len(rawData.v) |-> Member(Dec(i - 1), JStr(<<rawData.v[i]>>))]
      [] OTHER -> <<>>

\* loadPatientIdentities that returns nothing when one entry is invalid
loadPatientIdentitiesResultAllOrNothing(decrypted) ==
    IF ~decrypted.ok THEN JObj(<<>>)
    ELSE LET rawData == JSONparse(decrypted.s)
         IN  IF ~rawData.ok \/ rawData.x.t = "null" THEN JObj(<<>>)
             ELSE LET entries == ObjectEntries(rawData.x)
                  IN  IF \E i \in 1..Len(entries) : ~PatientIdentitySchema(entries[i].x)
                      THEN JObj(<<>>)
                      ELSE JObj([i \in 1..Len(entries) |->
                                   Member(entries[i].k, Strip(entries[i].x, PatientIdentityKeys))])

\* loadPatientIdentities after decryptData: the Map returned, as an object
loadPatientIdentitiesResult(decrypted) ==
    IF ~decrypted.ok THEN JObj(<<>>)
    ELSE LET rawData == JSONparse(decrypted.s)
         IN  IF ~rawData.ok \/ rawData.x.t = "null" THEN JObj(<<>>)
             ELSE LET entries == ObjectEntries(rawData.x)
                      valid == SelectSeq(entries, LAMBDA e : PatientIdentitySchema(e.x))
                  IN  JObj([i \in 1..Len(valid) |->
                              Member(valid[i].k, Strip(valid[i].x, PatientIdentityKeys))])

\* getAuditLog that returns the legacy entries without re-encrypting them
getAuditLogResultNoMigration(data, decrypted) ==
    LET empty == [entries |-> JArr(<<>>), migrate |-> FALSE, text |-> <<>>]
        rawData == IF decrypted.ok THEN JSONparse(decrypted.s) ELSE [ok |-> FALSE, x |-> JNull]
    IN  IF rawData.ok
        THEN [entries |-> AuditArraySafeParse(rawData.x).data, migrate |-> FALSE, text |-> <<>>]
        ELSE LET legacy == ParseStored(data)
             IN  IF legacy.ok /\ AuditArraySafeParse(legacy.x).success
                 THEN [entries |-> AuditArraySafeParse(legacy.x).data, migrate |-> FALSE,
                       text |-> <<>>]
                 ELSE empty

\* getAuditLog after decryptData, on the stored value data:
\* [entries, migrate, text]: the entries it will return, whether it
\* re-encrypts the legacy form first, and the text it encrypts then
getAuditLogResult(data, decrypted) ==
    LET empty == [entries |-> JArr(<<>>), migrate |-> FALSE, text |-> <<>>]
        rawData == IF decrypted.ok THEN JSONparse(decrypted.s) ELSE [ok |-> FALSE, x |-> JNull]
    IN  IF rawData.ok
        THEN [entries |-> AuditArraySafeParse(rawData.x).data, migrate |-> FALSE, text |-> <<>>]
        ELSE LET legacy == ParseStored(data)
             IN  IF legacy.ok /\ AuditArraySafeParse(legacy.x).success
                 THEN [entries |-> AuditArraySafeParse(legacy.x).data, migrate |-> TRUE,
                       text |-> JSONstringify(AuditArraySafeParse(legacy.x).data)]
                 ELSE empty

\* loadClinicalData of lib/storage.ts after decryptData: JSON.parse(decrypted)
\* is returned as it is
storage_loadClinicalDataResult(decrypted) ==
    IF ~decrypted.ok THEN JNull
    ELSE LET rawData == JSONparse(decrypted.s)
         IN  IF rawData.ok THEN rawData.x ELSE JNull

\* a zod object schema's output when keys may be absent
StripPresent(x, keys) ==
    Strip(x, SelectSeq(keys, LAMBDA k : Get(x, k) # UNDEFINED))

\* z.array(schema).safeParse(rawData) followed by `if (!result.success)
\* return []`: every element passes, or nothing is returned
ArrayOrEmpty(rawData, passes(_), keys) ==
    IF rawData.t = "arr" /\ \A i \in 1..Len(rawData.v) : passes(rawData.v[i])
    THEN JArr([i \in 1..Len(rawData.v) |-> StripPresent(rawData.v[i], keys)])
    ELSE JArr(<<>>)

\* JSON.parse(decrypted) throws into the catch block, which returns []
ParsedOrEmpty(rawData, passes(_), keys) ==
    IF rawData.ok THEN ArrayOrEmpty(rawData.x, passes, keys) ELSE JArr(<<>>)

\* loadPatientListClinical after decryptData: the array returned
loadPatientListClinicalResult(decrypted) ==
    IF ~decrypted.ok THEN JArr(<<>>)
    ELSE ParsedOrEmpty(JSONparse(decrypted.s), PatientListClinicalSchema,
                       PatientListClinicalKeys)

\* loadArchivedPatients after decryptData: the array returned
loadArchivedPatientsResult(decrypted) ==
    IF ~decrypted.ok THEN JArr(<<>>)
    ELSE ParsedOrEmpty(JSONparse(decrypted.s), ArchivedPatientSchema, ArchivedPatientKeys)

\* JSON.parse(decrypted) returned as it is, [] from the catch block
ParsedOrEmptyAny(rawData) == IF rawData.ok THEN rawData.x ELSE JArr(<<>>)

\* loadPatientListClinical and loadArchivedPatients of lib/storage.ts after
\* decryptData
storage_loadListResult(decrypted) ==
    IF ~decrypted.ok THEN JArr(<<>>) ELSE ParsedOrEmptyAny(JSONparse(decrypted.s))

MaxTasks == 2

MaxCalls == 2

\* a storage call in progress: the function called, where it waits, its
\* argument, the item it works on and what getItem gave it, the key
\* getOrCreateKey gave it, the pc it goes on with once the key is there, the
\* text it will encrypt, the audit entries it holds, the setItem calls it
\* made, the calls that had returned when it was made, and whether no other
\* call was in progress during it
IdleTask ==
    [op |-> "none", pc |-> "idle", arg |-> JNull, item |-> "none", data |-> Absent, key |-> 0,
     then |-> "idle", text |-> <<>>, existing |-> JArr(<<>>), wrote |-> 0, after |-> 0,
     alone |-> TRUE]

ActiveTasks == {t \in 1..MaxTasks : tasks[t].pc # "idle"}

Item(op) ==
    CASE op \in {"saveClinicalData", "loadClinicalData", "storage.loadClinicalData"} ->
            CLINICAL_DATA_KEY
      [] op \in {"savePatientIdentities", "loadPatientIdentities"} -> IDENTITIES_KEY
      [] op \in {"savePatientList", "loadPatientListClinical",
                 "storage.loadPatientListClinical"} -> PATIENT_LIST_KEY
      [] op \in {"saveArchivedPatients", "loadArchivedPatients",
                 "storage.loadArchivedPatients"} -> ARCHIVE_KEY
      [] OTHER -> AUDIT_LOG_KEY

\* the functions that encrypt their argument and store it
Saves == {"saveClinicalData", "savePatientList", "savePatientIdentities", "saveArchivedPatients"}

\* JSON.stringify of what a save stores
SaveText(op, arg) ==
    IF op = "savePatientList" THEN JSONstringify(dataToStore(arg)) ELSE JSONstringify(arg)

\* what a load returns after decryptData
LoadResult(op, decrypted) ==
    CASE op = "loadClinicalData" -> loadClinicalDataResult(decrypted)
      [] op = "storage.loadClinicalData" -> storage_loadClinicalDataResult(decrypted)
      [] op = "loadPatientListClinical" -> loadPatientListClinicalResult(decrypted)
      [] op = "loadArchivedPatients" -> loadArchivedPatientsResult(decrypted)
      [] op \in {"storage.loadPatientListClinical", "storage.loadArchivedPatients"} ->
            storage_loadListResult(decrypted)
      [] OTHER -> loadPatientIdentitiesResult(decrypted)

\* the record of a call that returns
Returned(task, ret) ==
    [op |-> task.op, arg |-> task.arg, data |-> task.data, key |-> task.key, ret |-> ret,
     wrote |-> task.wrote, after |-> task.after, alone |-> task.alone]

\* encryptData / decryptData call getOrCreateKey: its getItem runs at once, a
\* created key is stored after the awaits of generateKey and exportKey
KeyWait(task, next) ==
    LET k == getOrCreateKey(sessionKey, keysGenerated)
    IN  [task EXCEPT !.key = k.key, !.then = next, !.pc = IF k.created THEN "key" ELSE next]

KeyCount ==
    IF getOrCreateKey(sessionKey, keysGenerated).created
    THEN keysGenerated + 1 ELSE keysGenerated

\* a storage function is called: it runs up to its first await
Call(t, op, arg) ==
    /\ tasks[t].pc = "idle"
    /\ \A u \in 1..(t - 1) : tasks[u].pc # "idle"
    /\ Len(hist) + Cardinality(ActiveTasks) < MaxCalls
    /\ LET data == store[Item(op)]
           others == [u \in 1..MaxTasks |->
                        IF u \in ActiveTasks THEN [tasks[u] EXCEPT !.alone = FALSE]
                        ELSE tasks[u]]
           task == [IdleTask EXCEPT !.op = op, !.arg = arg, !.item = Item(op), !.data = data,
                                    !.after = Len(hist), !.alone = ActiveTasks = {}]
       IN  CASE op \in Saves ->
                   /\ tasks' = [others EXCEPT ![t] =
                                   KeyWait([task EXCEPT !.text = SaveText(op, arg)], "write")]
                   /\ keysGenerated' = KeyCount
                   /\ UNCHANGED hist
             [] op # "appendAuditLog" /\ Missing(data) ->
                   /\ hist' = Append(hist, Returned(task,
                                 CASE Item(op) = CLINICAL_DATA_KEY -> JNull
                                   [] Item(op) = IDENTITIES_KEY -> JObj(<<>>)
                                   [] OTHER -> JArr(<<>>)))
                   /\ tasks' = others
                   /\ UNCHANGED keysGenerated
             [] op = "appendAuditLog" /\ Missing(data) ->
                   /\ tasks' = [others EXCEPT ![t] = [task EXCEPT !.pc = "push"]]
                   /\ UNCHANGED <<hist, keysGenerated>>
             [] OTHER ->
                   /\ tasks' = [others EXCEPT ![t] = KeyWait(task, "decrypted")]
                   /\ keysGenerated' = KeyCount
                   /\ UNCHANGED hist
    /\ UNCHANGED <<sessionKey, store, logBase>>
    /\ UNCHANGED <<protoVars, scanVars, pasteVars, provVars>>

\* getOrCreateKey after exportKey: sessionStorage.setItem, return key
KeyStore(t) ==
    /\ tasks[t].pc = "key"
    /\ sessionKey' = tasks[t].key
    /\ tasks' = [tasks EXCEPT ![t].pc = tasks[t].then]
    /\ UNCHANGED <<keysGenerated, store, hist, logBase>>
    /\ UNCHANGED <<protoVars, scanVars, pasteVars, provVars>>

\* a load goes on after decryptData: parse, validate, return; getAuditLog
\* may first re-encrypt the legacy form
Decrypted(t) ==
    /\ tasks[t].pc = "decrypted"
    /\ \E task \in {tasks[t]} :
       \E decrypted \in {decryptData(task.key, task.data)} :
       \E r \in {getAuditLogResult(task.data, decrypted)} :
       \E got \in {[task EXCEPT !.existing = r.entries, !.text = r.text]} :
          CASE task.item # AUDIT_LOG_KEY ->
                  /\ hist' = Append(hist, Returned(task, LoadResult(task.op, decrypted)))
                  /\ tasks' = [tasks EXCEPT ![t] = IdleTask]
                  /\ UNCHANGED keysGenerated
            [] task.item = AUDIT_LOG_KEY /\ r.migrate ->
                  /\ tasks' = [tasks EXCEPT ![t] = KeyWait(got, "migrate")]
                  /\ keysGenerated' = KeyCount
                  /\ UNCHANGED hist
            [] task.item = AUDIT_LOG_KEY /\ ~r.migrate /\ task.op = "getAuditLog" ->
                  /\ hist' = Append(hist, Returned(got, r.entries))
                  /\ tasks' = [tasks EXCEPT ![t] = IdleTask]
                  /\ UNCHANGED keysGenerated
            [] OTHER ->
                  /\ tasks' = [tasks EXCEPT ![t] = [got EXCEPT !.pc = "push"]]
                  /\ UNCHANGED <<hist, keysGenerated>>
    /\ UNCHANGED <<sessionKey, store, logBase>>
    /\ UNCHANGED <<protoVars, scanVars, pasteVars, provVars>>

\* getAuditLog after the encryptData of the migration: setItem, return
Migrate(t) ==
    /\ tasks[t].pc = "migrate"
    /\ LET task == tasks[t]
           wrote == [task EXCEPT !.wrote = @ + 1]
       IN  /\ store' = [store EXCEPT ![AUDIT_LOG_KEY] = encryptData(task.key, task.text)]
           /\ IF task.op = "getAuditLog"
              THEN /\ hist' = Append(hist, Returned(wrote, task.existing))
                   /\ tasks' = [tasks EXCEPT ![t] = IdleTask]
              ELSE /\ tasks' = [tasks EXCEPT ![t] = [wrote EXCEPT !.pc = "push"]]
                   /\ UNCHANGED hist
    /\ UNCHANGED <<sessionKey, keysGenerated, logBase>>
    /\ UNCHANGED <<protoVars, scanVars, pasteVars, provVars>>

\* appendAuditLog after its await of getAuditLog: push, stringify, encryptData
Push(t) ==
    /\ tasks[t].pc = "push"
    /\ LET task == tasks[t]
           existing == JArr(Append(task.existing.v, task.arg))
       IN  tasks' = [tasks EXCEPT ![t] =
                        KeyWait([task EXCEPT !.existing = existing,
                                             !.text = JSONstringify(existing)], "write")]
    /\ keysGenerated' = KeyCount
    /\ UNCHANGED <<sessionKey, store, hist, logBase>>
    /\ UNCHANGED <<protoVars, scanVars, pasteVars, provVars>>

\* a save or appendAuditLog after encryptData: setItem, return
Write(t) ==
    /\ tasks[t].pc = "write"
    /\ LET task == tasks[t]
       IN  /\ store' = [store EXCEPT ![task.item] = encryptData(task.key, task.text)]
           /\ hist' = Append(hist, Returned([task EXCEPT !.wrote = @ + 1], JNull))
           /\ tasks' = [tasks EXCEPT ![t] = IdleTask]
    /\ UNCHANGED <<sessionKey, keysGenerated, logBase>>
    /\ UNCHANGED <<protoVars, scanVars, pasteVars, provVars>>

\* what the catch block of a save gives its caller: saveClinicalData throws
\* a new Error, the others log and return
SaveError == [t |-> "error", v |-> "Failed to save clinical data securely"]

SaveFailureSwallowed(op) == JNull

SaveFailure(op) == IF op = "saveClinicalData" THEN SaveError ELSE JNull

\* encryptData or localStorage.setItem throws in a save or appendAuditLog:
\* nothing is stored, the catch block runs
WriteFails(t) ==
    /\ tasks[t].pc = "write"
    /\ hist' = Append(hist, Returned(tasks[t], SaveFailure(tasks[t].op)))
    /\ tasks' = [tasks EXCEPT ![t] = IdleTask]
    /\ UNCHANGED <<sessionKey, keysGenerated, store, logBase>>
    /\ UNCHANGED <<protoVars, scanVars, pasteVars, provVars>>

\* the items clearAllStorage removes: five in the storage module with
\* validation, three in lib/storage.ts
ClearedItems(op) ==
    IF op = "clearAllStorage"
    THEN {CLINICAL_DATA_KEY, PATIENT_LIST_KEY, IDENTITIES_KEY, AUDIT_LOG_KEY, ARCHIVE_KEY}
    ELSE {CLINICAL_DATA_KEY, PATIENT_LIST_KEY, IDENTITIES_KEY}

\* clearAllStorage: removeItem for its items and for the key in
\* sessionStorage; it runs to its end at once
ClearAllStorage(op) ==
    /\ Len(hist) + Cardinality(ActiveTasks) < MaxCalls
    /\ store' = [k \in DOMAIN store |-> IF k \in ClearedItems(op) THEN Absent ELSE store[k]]
    /\ sessionKey' = 0
    /\ hist' = Append(hist, Returned([IdleTask EXCEPT !.op = op, !.key = sessionKey,
                                                      !.after = Len(hist),
                                                      !.alone = ActiveTasks = {}], JNull))
    /\ tasks' = [u \in 1..MaxTasks |->
                    IF u \in ActiveTasks THEN [tasks[u] EXCEPT !.alone = FALSE] ELSE tasks[u]]
    /\ UNCHANGED <<keysGenerated, logBase>>
    /\ UNCHANGED <<protoVars, scanVars, pasteVars, provVars>>

\* getAuditLog of lib/storage.ts: data ? JSON.parse(data) : [], [] from the
\* catch block
storage_getAuditLogResult(data) ==
    IF Missing(data) THEN JArr(<<>>) ELSE ParsedOrEmptyAny(ParseStored(data))

storage_getAuditLog ==
    /\ Len(hist) + Cardinality(ActiveTasks) < MaxCalls
    /\ hist' = Append(hist, Returned([IdleTask EXCEPT !.op = "storage.getAuditLog",
                                                      !.item = AUDIT_LOG_KEY,
                                                      !.data = store[AUDIT_LOG_KEY],
                                                      !.after = Len(hist),
                                                      !.alone = ActiveTasks = {}],
                                     storage_getAuditLogResult(store[AUDIT_LOG_KEY])))
    /\ tasks' = [u \in 1..MaxTasks |->
                    IF u \in ActiveTasks THEN [tasks[u] EXCEPT !.alone = FALSE] ELSE tasks[u]]
    /\ UNCHANGED <<sessionKey, keysGenerated, store, logBase>>
    /\ UNCHANGED <<protoVars, scanVars, pasteVars, provVars>>

\* audit entries as PatientContext builds them
LogEntry(hash, direction) ==
    JObj(<<Member(K_hash, JStr(hash)), Member(K_timestamp, JStr(Timestamp)),
           Member(K_receiverId, JStr(<<"R">>)), Member(K_direction, JStr(direction))>>)

E0 == LogEntry(<<"0">>, <<"s", "e", "n", "t">>)

\* the entry of the next appendAuditLog call: each call brings its own hash
NextEntry ==
    LogEntry(Dec(Len(hist) + Cardinality(ActiveTasks) + 1),
             <<"r", "e", "c", "e", "i", "v", "e", "d">>)

\* the audit log as a session finds it: nothing, the legacy unencrypted
\* form, text that is no JSON, the encrypted form of an earlier session
\* (whose key went with its sessionStorage) or of this session; with the
\* entries appended up to then
AuditPresets ==
    {[key |-> 0, item |-> Absent, base |-> <<>>],
     [key |-> 0, item |-> Plain(JSONstringify(JArr(<<E0>>))), base |-> <<E0>>],
     [key |-> 0, item |-> Plain(<<"x">>), base |-> <<>>],
     [key |-> 0, item |-> encryptData(OldKey, JSONstringify(JArr(<<E0>>))), base |-> <<E0>>],
     [key |-> 1, item |-> encryptData(1, JSONstringify(JArr(<<E0>>))), base |-> <<E0>>]}

InitAudit ==
    /\ ProtoIdle
    /\ ScannerInit
    /\ PasteIdle
    /\ ProvIdle
    /\ \E p \in AuditPresets :
          /\ sessionKey = p.key
          /\ keysGenerated = p.key
          /\ store = (AUDIT_LOG_KEY :> p.item)
          /\ logBase = p.base
    /\ tasks = [t \in 1..MaxTasks |-> IdleTask]
    /\ hist = <<>>

NextAudit ==
    \E t \in 1..MaxTasks :
       \/ Call(t, "appendAuditLog", NextEntry)
       \/ Call(t, "getAuditLog", JNull)
       \/ KeyStore(t)
       \/ Decrypted(t)
       \/ Migrate(t)
       \/ Push(t)
       \/ Write(t)

SpecAudit == InitAudit /\ [][NextAudit]_vars

IdentityMap(ids) ==
    JObj([i \in 1..Len(ids) |-> Member(<<"p">> \o Dec(i), ids[i])])

\* clinical data with a field missing
BrokenClinical == JObj(<<Member(K_situation, JStr(<<"s">>))>>)

\* the vault as a session finds it: nothing; the encrypted forms of an
\* earlier session; values of this session that are valid, that hold a
\* value the schema rejects, or that are no JSON
VaultPresets ==
    {[key |-> 0, clinical |-> Absent, identities |-> Absent],
     [key |-> 0, clinical |-> encryptData(OldKey, JSONstringify(FullClinical)),
      identities |-> encryptData(OldKey, JSONstringify(IdentityMap(<<FullIdentity(<<"a">>)>>)))],
     [key |-> 1, clinical |-> encryptData(1, JSONstringify(FullClinical)),
      identities |-> encryptData(1, JSONstringify(IdentityMap(<<FullIdentity(<<"a">>)>>)))],
     [key |-> 1, clinical |-> encryptData(1, JSONstringify(BrokenClinical)),
      identities |-> encryptData(1, JSONstringify(
                        IdentityMap(<<FullIdentity(<<"a">>), BrokenIdentity>>)))],
     [key |-> 1, clinical |-> encryptData(1, <<"x">>),
      identities |-> encryptData(1, <<"n", "u", "l", "l">>)]}

InitVault ==
    /\ ProtoIdle
    /\ ScannerInit
    /\ PasteIdle
    /\ ProvIdle
    /\ \E p \in VaultPresets :
          /\ sessionKey = p.key
          /\ keysGenerated = p.key
          /\ store = (CLINICAL_DATA_KEY :> p.clinical) @@ (IDENTITIES_KEY :> p.identities)
    /\ logBase = <<>>
    /\ tasks = [t \in 1..MaxTasks |-> IdleTask]
    /\ hist = <<>>

NextVault ==
    \E t \in 1..MaxTasks :
       \/ Call(t, "saveClinicalData", FullClinical)
       \/ Call(t, "savePatientIdentities", IdentityMap(<<FullIdentity(<<"b">>)>>))
       \/ \E op \in {"loadClinicalData", "storage.loadClinicalData", "loadPatientIdentities"} :
             Call(t, op, JNull)
       \/ KeyStore(t)
       \/ Decrypted(t)
       \/ Write(t)

SpecVault == InitVault /\ [][NextVault]_vars

\* ------------------------------------------------------------------------
\* The whole store: the five items, every save and load, clearAllStorage of
\* both storage modules
\* ------------------------------------------------------------------------
PatientOne == PatientRecord(<<"p", "1">>, FullIdentity(<<"a">>), FullClinical)

PatientListArg == JArr(<<PatientOne>>)

ArchiveArg == JArr(<<ArchivedPatient(<<"p", "0">>, FullIdentity(<<"b">>), FullClinical)>>)

\* the five items as saves under the key k left them
ItemsUnder(k) ==
    (CLINICAL_DATA_KEY :> encryptData(k, JSONstringify(FullClinical)))
    @@ (PATIENT_LIST_KEY :> encryptData(k, JSONstringify(dataToStore(PatientListArg))))
    @@ (IDENTITIES_KEY :> encryptData(k, JSONstringify(IdentityMap(<<FullIdentity(<<"a">>)>>))))
    @@ (ARCHIVE_KEY :> encryptData(k, JSONstringify(ArchiveArg)))
    @@ (AUDIT_LOG_KEY :> encryptData(k, JSONstringify(JArr(<<E0>>))))

\* the store as a session finds it: nothing; the values of this session;
\* the same with the audit log as lib/storage.ts writes it (JSON text); the
\* values of an earlier session
StorePresets ==
    {[key |-> 0, items |-> [k \in DOMAIN ItemsUnder(1) |-> Absent]],
     [key |-> 1, items |-> ItemsUnder(1)],
     [key |-> 1, items |-> [ItemsUnder(1) EXCEPT
                              ![AUDIT_LOG_KEY] = Plain(JSONstringify(JArr(<<E0>>)))]],
     [key |-> 0, items |-> ItemsUnder(OldKey)]}

InitStore ==
    /\ ProtoIdle
    /\ ScannerInit
    /\ PasteIdle
    /\ ProvIdle
    /\ \E p \in StorePresets :
          /\ sessionKey = p.key
          /\ keysGenerated = p.key
          /\ store = p.items
    /\ logBase = <<E0>>
    /\ tasks = [t \in 1..MaxTasks |-> IdleTask]
    /\ hist = <<>>

NextStore ==
    \/ \E t \in 1..MaxTasks :
          \/ Call(t, "saveClinicalData", FullClinical)
          \/ Call(t, "savePatientList", PatientListArg)
          \/ Call(t, "savePatientIdentities", IdentityMap(<<FullIdentity(<<"b">>)>>))
          \/ Call(t, "saveArchivedPatients", ArchiveArg)
          \/ \E op \in {"loadClinicalData", "loadPatientListClinical", "loadPatientIdentities",
                         "loadArchivedPatients", "getAuditLog"} : Call(t, op, JNull)
          \/ KeyStore(t)
          \/ Decrypted(t)
          \/ Migrate(t)
          \/ Write(t)
    \/ ClearAllStorage("clearAllStorage")
    \/ ClearAllStorage("storage.clearAllStorage")
    \/ storage_getAuditLog

SpecStore == InitStore /\ [][NextStore]_vars

\* ------------------------------------------------------------------------
\* Crypto-shredding: the archive, which clearAllStorage of lib/storage.ts
\* leaves in place while it removes the key
\* ------------------------------------------------------------------------
ShredPresets ==
    {[key |-> 0, item |-> Absent],
     [key |-> 1, item |-> encryptData(1, JSONstringify(ArchiveArg))],
     [key |-> 0, item |-> encryptData(OldKey, JSONstringify(ArchiveArg))]}

InitShred ==
    /\ ProtoIdle
    /\ ScannerInit
    /\ PasteIdle
    /\ ProvIdle
    /\ \E p \in ShredPresets :
          /\ sessionKey = p.key
          /\ keysGenerated = p.key
          /\ store = (ARCHIVE_KEY :> p.item)
    /\ logBase = <<>>
    /\ tasks = [t \in 1..MaxTasks |-> IdleTask]
    /\ hist = <<>>

NextShred ==
    \/ \E t \in 1..MaxTasks :
          \/ Call(t, "saveArchivedPatients", JArr(<<>>))
          \/ Call(t, "loadArchivedPatients", JNull)
          \/ KeyStore(t)
          \/ Decrypted(t)
          \/ Write(t)
    \/ ClearAllStorage("storage.clearAllStorage")

SpecShred == InitShred /\ [][NextShred]_vars

\* ------------------------------------------------------------------------
\* Saves whose encryption or setItem may fail
\* ------------------------------------------------------------------------
InitFault ==
    /\ ProtoIdle
    /\ ScannerInit
    /\ PasteIdle
    /\ ProvIdle
    /\ \E p \in {q \in StorePresets : q.items[AUDIT_LOG_KEY].kind # "plain"} :
          /\ sessionKey = p.key
          /\ keysGenerated = p.key
          /\ store = p.items
    /\ logBase = <<E0>>
    /\ tasks = [t \in 1..MaxTasks |-> IdleTask]
    /\ hist = <<>>

NextFault ==
    \E t \in 1..MaxTasks :
       \/ Call(t, "saveClinicalData", FullClinical)
       \/ Call(t, "savePatientList", PatientListArg)
       \/ Call(t, "savePatientIdentities", IdentityMap(<<FullIdentity(<<"b">>)>>))
       \/ Call(t, "saveArchivedPatients", ArchiveArg)
       \/ Call(t, "appendAuditLog", NextEntry)
       \/ KeyStore(t)
       \/ Decrypted(t)
       \/ Push(t)
       \/ Write(t)
       \/ WriteFails(t)

SpecFault == InitFault /\ [][NextFault]_vars

\* ------------------------------------------------------------------------
\* Loads of collections: the identity map, the patient list and the archive
\* as decrypted texts whose entries are valid, lack a field or have a value
\* of the wrong type
\* ------------------------------------------------------------------------
MaxEntries == 3

EntryKinds == {"valid", "missing", "wrong"}

CollectionLoads == {"loadPatientIdentities", "loadPatientListClinical", "loadArchivedPatients"}

StoredIdentity(kind) ==
    CASE kind = "valid" -> FullIdentity(<<"a">>)
      [] kind = "missing" -> BrokenIdentity
      [] OTHER -> JStr(<<"x">>)

StoredClinical(kind) ==
    CASE kind = "valid" -> FullClinical
      [] kind = "missing" -> BrokenClinical
      [] OTHER -> JNull

\* the i-th entry of the value an item holds
StoredEntry(op, kind, i) ==
    CASE op = "loadPatientIdentities" -> StoredIdentity(kind)
      [] op = "loadPatientListClinical" ->
            Strip(PatientRecord(<<"p">> \o Dec(i), FullIdentity(<<"a">>), StoredClinical(kind)),
                  PatientListClinicalKeys)
      [] OTHER -> ArchivedPatient(<<"p">> \o Dec(i), StoredIdentity(kind), FullClinical)

\* the value of the item: an object keyed by patient id for the identities,
\* an array for the list and the archive
StoredValue(op, kinds) ==
    IF op = "loadPatientIdentities"
    THEN JObj([i \in 1..Len(kinds) |->
                 Member(<<"p">> \o Dec(i), StoredEntry(op, kinds[i], i))])
    ELSE JArr([i \in 1..Len(kinds) |-> StoredEntry(op, kinds[i], i)])

InitLoads ==
    /\ pc = "stored"
    /\ parsed \in CollectionLoads
    /\ chunkList \in UNION {[1..n -> EntryKinds] : n \in 0..MaxEntries}
    /\ payload = StoredValue(parsed, chunkList)
    /\ raw = JSONstringify(payload)
    /\ compressed = NONE
    /\ encoded = NONE
    /\ result = NONE
    /\ ScannerInit
    /\ RestIdle

\* the load from its decryptData on
LoadCollection ==
    /\ pc = "stored"
    /\ result' = LoadResult(parsed, [ok |-> TRUE, s |-> raw])
    /\ pc' = "loaded"
    /\ UNCHANGED <<payload, compressed, encoded, chunkList, raw, parsed>>
    /\ UNCHANGED <<scanVars, restVars>>

NextLoads == LoadCollection

SpecLoads == InitLoads /\ [][NextLoads]_vars

\* ------------------------------------------------------------------------
\* Manual paste against scanning: one list of strings pasted as a JSON array
\* and fed string by string to a scanner that was just started
\* ------------------------------------------------------------------------
MaxFeed == 3

FeedLists == UNION {[1..n -> 1..Len(ScanRaws)] : n \in 0..MaxFeed}

\* handleCopyData's text for a list of strings
ListText(list) == JSONstringify(JArr([i \in 1..Len(list) |-> JStr(list[i])]))

\* handleScan, as start() holds it after mount, on the strings from the
\* i-th on, with the chunk map prev: the payload of the first onComplete, or
\* JNull when the list ends without one
RECURSIVE ScanFeed(_, _, _)
\* after handleScan gave r on the i-th string
ScanNext(list, i, r) ==
    IF r.kind \in {"legacy", "complete"} THEN r.payload ELSE ScanFeed(list, i + 1, r.next)

ScanFeed(list, i, prev) ==
    IF i > Len(list) THEN JNull
    ELSE ScanNext(list, i, handleScanResult(list[i], <<>>, prev))

InitAgree ==
    /\ pc = "list"
    /\ \E ids \in FeedLists : chunkList = [i \in 1..Len(ids) |-> ScanRaws[ids[i]]]
    /\ payload = NONE /\ compressed = NONE /\ encoded = NONE
    /\ result = NONE /\ raw = NONE /\ parsed = NONE
    /\ ScannerInit
    /\ RestIdle

\* the list goes both ways: result holds what onComplete got from the
\* scanner and what onReceive got from handleManualPaste
\* the list pasted as one JSON array into the manual field
PasteList ==
    /\ pc = "list"
    /\ \E hasRequire \in BOOLEAN :
       \E pasted \in {handleManualPasteResult(ListText(chunkList), <<"R">>, hasRequire)} :
          result' = [hasRequire |-> hasRequire,
                     paste |-> IF pasted.calls THEN pasted.payload ELSE JNull]
    /\ pc' = "pasted"
    /\ UNCHANGED <<payload, compressed, encoded, chunkList, raw, parsed>>
    /\ UNCHANGED <<scanVars, restVars>>

\* the same list shown to a fresh scanner one string after the other
ScanList ==
    /\ pc = "pasted"
    /\ \E scan \in {ScanFeed(chunkList, 1, <<>>)} :
          result' = [hasRequire |-> result.hasRequire, paste |-> result.paste, scan |-> scan]
    /\ pc' = "compared"
    /\ UNCHANGED <<payload, compressed, encoded, chunkList, raw, parsed>>
    /\ UNCHANGED <<scanVars, restVars>>

NextAgree == PasteList \/ ScanList

SpecAgree == InitAgree /\ [][NextAgree]_vars

\* C8: noise tolerance.  Once the scan events of a session contain every
\* chunk of the transfer, in any order, with repeats and with garbage
\* strings in between, the scanner has completed, and what it delivered to
\* onComplete is the payload of the transfer.
C8_NoiseTolerance ==
    (/\ mounted
     /\ (1..Len(ScanChunks)) \subseteq scanned
     /\ scanned \subseteq 1..(Len(ScanChunks) + 1))
       => /\ delivered # <<>>
          /\ \A i \in 1..Len(delivered) : delivered[i] = ScanPayload

\* C9: exactly-once delivery.  Within one scanning session onComplete is
\* invoked at most once, whatever is scanned, repeats of the completing value
\* between the completion and the actual stop of the camera included.
C9_ExactlyOnce == Len(delivered) <= 1

\* C10: repeat suppression.  A scan event whose raw value is the previous raw
\* value of the same session changes neither the received chunks nor the
\* expected total, attempts no decode and invokes no callback.
C10_RepeatSuppressed ==
    [][(scanCount' = scanCount + 1 /\ lastRaw' = lastRaw)
          => /\ chunks' = chunks
             /\ totalChunks' = totalChunks
             /\ decodeAttempts' = decodeAttempts
             /\ delivered' = delivered
             /\ received' = received]_vars

\* C11: whenever the expected total is known, the received-chunk map holds
\* at most that many entries and every key lies in 1..total, whatever was
\* scanned, chunks that carry different totals included.
C11_ChunksWithinTotal ==
    totalChunks # <<>>
       => /\ Len(chunks) <= totalChunks[1]
          /\ \A i \in 1..Len(chunks) :
                1 <= chunks[i].index /\ chunks[i].index <= totalChunks[1]

\* C12: failed is terminal.  Once a complete chunk set has failed to decode
\* in a session, no later scan event of that session invokes onComplete.
C12_FailedTerminal ==
    [][(decodeAttempts > Len(delivered) /\ sessions' = sessions)
          => delivered' = delivered]_vars

\* C13: cancellation safety.  Once stopScanning has been requested before a
\* completion (the camera is stopping and nothing was delivered: the stop
\* button or the unmount asked for it), no scan event invokes onComplete.
C13_CancellationSafe ==
    [][(camera = "stopping" /\ delivered = <<>>) => delivered' = <<>>]_vars

\* C14: a miss changes nothing.  A scanned value that is neither a chunk nor
\* of the legacy form leaves the received chunks, the expected total and the
\* last raw value as they were and ends no session.
C14_MissChangesNothing ==
    [][(scanCount' = scanCount + 1 /\ lastRaw' = <<Len(ScanChunks) + 1>>)
          => /\ chunks' = chunks
             /\ totalChunks' = totalChunks
             /\ lastScanned' = lastScanned
             /\ camera' = camera
             /\ isScanning' = isScanning]_vars

\* C15: legacy compatibility, on the scanner.  A scanned legacy single-patient
\* object that is not a repeat of the session's previous value is delivered
\* to onComplete as a payload with exactly the one patient {identity,
\* clinical}, the empty sessionToken and the default timestamp.
C15_LegacyAccepted ==
    [][(/\ scanCount' = scanCount + 1
        /\ lastRaw' = <<Len(ScanRaws)>>
        /\ lastRaw # <<Len(ScanRaws)>>
        /\ mounted)
          => delivered' =
                Append(delivered,
                       MultiPartPayload(<<Patient(IdentityA, ClinicalShort)>>, <<>>, NowISO))]_vars

\* C16: validation atomicity.  A received payload in which a patient entry
\* fails the schema is rejected as a whole: onReceive is called only with
\* payloads that pass MultiPartPayloadSchema.
C16_ValidationAtomic ==
    \A i \in 1..Len(received) : MultiPartPayloadSchema(received[i])


\* C17: key creation is serialized: whatever the interleaving of first-access
\* calls, at most one encryption key is generated in a session, so that once
\* the calls have returned every value encrypted in the session is under the
\* key the session keeps, and every later call can decrypt it.
C17_KeyCreationSerialized ==
    /\ keysGenerated <= 1
    /\ ActiveTasks = {} =>
          \A item \in DOMAIN store :
             (store[item].kind = "cipher" /\ store[item].key > 0)
                => store[item].key = sessionKey

\* the entries of the stored audit log
StoredLogEntries ==
    LET stored == JSONparse(store[AUDIT_LOG_KEY].text)
    IN  IF stored.ok /\ stored.x.t = "arr" THEN stored.x.v ELSE <<>>

\* the entries appended so far, in the order in which the appends returned
AppendedEntries ==
    LET appends == SelectSeq(hist, LAMBDA h : h.op = "appendAuditLog")
    IN  logBase \o [i \in 1..Len(appends) |-> appends[i].arg]

\* C18: the audit log is append-only: once every appendAuditLog call has
\* returned, the stored log holds every entry appended so far, unmodified
\* and in append order, also when the stored log could not be decrypted or
\* parsed at the time of an append.
C18_AppendOnly == ActiveTasks = {} => StoredLogEntries = AppendedEntries

\* the stored audit log is in the legacy unencrypted form
LegacyForm(data) ==
    /\ data.kind = "plain"
    /\ ParseStored(data).ok
    /\ AuditArraySafeParse(ParseStored(data).x).success

\* two getAuditLog calls, one after the other with no other storage call
\* in progress, the first of which found the legacy form
MigrationPairs ==
    {i \in 1..(Len(hist) - 1) :
        /\ hist[i].op = "getAuditLog" /\ hist[i].alone
        /\ hist[i + 1].op = "getAuditLog" /\ hist[i + 1].alone
        /\ hist[i + 1].after = i
        /\ LegacyForm(hist[i].data)}

\* C19: storage migration idempotence: on the legacy unencrypted form the
\* first getAuditLog returns the validated entries and replaces the stored
\* value by its encrypted form; a second getAuditLog of the session takes
\* the decrypt path, returns the identical entries and writes nothing.
C19_MigrationIdempotent ==
    \A i \in MigrationPairs :
       /\ hist[i].ret = AuditArraySafeParse(ParseStored(hist[i].data).x).data
       /\ hist[i].wrote = 1
       /\ hist[i + 1].data = encryptData(hist[i + 1].key, JSONstringify(hist[i].ret))
       /\ decryptData(hist[i + 1].key, hist[i + 1].data).ok
       /\ hist[i + 1].ret = hist[i].ret
       /\ hist[i + 1].wrote = 0

C19_Witness == \E i \in MigrationPairs : hist[i].ret = JArr(<<E0>>)

Loads == {"loadClinicalData", "storage.loadClinicalData", "loadPatientIdentities"}

\* the value a load gives when there is nothing to give
AbsenceValue(op) ==
    CASE op = "loadPatientIdentities" -> JObj(<<>>)
      [] op \in {"loadClinicalData", "storage.loadClinicalData"} -> JNull
      [] OTHER -> JArr(<<>>)

\* schema validation of a parsed stored value fails
SchemaFails(op, x) ==
    IF op = "loadPatientIdentities"
    THEN x.t # "obj" \/ \E k \in 1..Len(x.v) : ~PatientIdentitySchema(x.v[k].x)
    ELSE ~ClinicalDataSchema(x)

\* a load that found nothing, could not decrypt, could not parse or could
\* not validate
FailedLoad(h) ==
    /\ h.op \in Loads
    /\ \/ Missing(h.data)
       \/ ~decryptData(h.key, h.data).ok
       \/ ~JSONparse(h.data.text).ok
       \/ SchemaFails(h.op, JSONparse(h.data.text).x)

\* C20: every load returns the absence value when nothing is stored, when
\* decryption fails, when the decrypted text is no JSON or when schema
\* validation fails, and a failed load does not modify the stored value.
C20_FailedLoadAbsent ==
    \A i \in 1..Len(hist) :
       FailedLoad(hist[i]) => (hist[i].ret = AbsenceValue(hist[i].op) /\ hist[i].wrote = 0)


\* C25: manual paste agrees with scanning: where require() is available, a
\* list of strings pasted as a JSON array delivers a payload to onReceive
\* exactly when the same strings fed one by one to the scanner deliver one
\* to onComplete, and the two payloads are equal.
C25_PasteAgreesWithScan ==
    (pc = "compared" /\ result.hasRequire) => result.paste = result.scan

\* C26: restart isolation: startScanning begins every session with an empty
\* chunk set, an unknown expected total and no last raw value, in the state
\* and in the handleScan it registers, and every chunk of the map was
\* scanned in the session.
C26_RestartIsolation ==
    [][/\ sessions' = sessions + 1 =>
             (chunks' = <<>> /\ totalChunks' = <<>> /\ lastScanned' = <<>>
              /\ cbLastScanned' = <<>>)
       /\ \A i \in 1..Len(chunks') :
             \E id \in scanned' : parseQRChunk(ScanRaws[id]) = chunks'[i]]_vars

\* a parsed value with a member named like a field of PatientIdentity
RECURSIVE HoldsIdentityFields(_)
HoldsIdentityFields(x) ==
    CASE x.t = "obj" ->
            \E i \in 1..Len(x.v) :
               \/ \E k \in 1..Len(PatientIdentityKeys) : x.v[i].k = PatientIdentityKeys[k]
               \/ HoldsIdentityFields(x.v[i].x)
      [] x.t = "arr" -> \E i \in 1..Len(x.v) : HoldsIdentityFields(x.v[i])
      [] OTHER -> FALSE

\* C21: the identity record is never persisted: no value that a step of the
\* storage layer writes to localStorage holds a patient's identity fields
\* (name, age, bed number, ...), encrypted or not.
C21_IdentityNeverPersisted ==
    [][\A k \in DOMAIN store :
          store'[k] # store[k] => ~HoldsIdentityFields(JSONparse(store'[k].text).x)]_vars

\* the functions that read an item and return its value
AllLoads ==
    {"loadClinicalData", "storage.loadClinicalData", "loadPatientListClinical",
     "storage.loadPatientListClinical", "loadPatientIdentities", "loadArchivedPatients",
     "storage.loadArchivedPatients", "getAuditLog", "storage.getAuditLog"}

\* the keys no longer in sessionStorage when n calls had returned: the key of
\* the earlier session and those clearAllStorage removed
GoneKeys(n) ==
    {OldKey} \cup {hist[i].key : i \in {c \in 1..n : hist[c].op \in {"clearAllStorage",
                                                                   "storage.clearAllStorage"}
                                                   /\ hist[c].key # 0}}

\* C22: crypto-shredding: a load called once the key that encrypted the
\* stored value is gone (the session ended or clearAllStorage ran) returns
\* the absence value, whatever happened since, the generation of a new key
\* included.
C22_CryptoShredding ==
    \A j \in 1..Len(hist) :
       (/\ hist[j].op \in AllLoads
        /\ hist[j].data.kind = "cipher"
        /\ hist[j].data.key \in GoneKeys(hist[j].after))
       => hist[j].ret = AbsenceValue(hist[j].op)

\* the archive saved under key 1 is loaded after clearAllStorage removed
\* that key, under a key generated since
C22_Witness ==
    \E j \in 1..Len(hist) :
       /\ hist[j].op = "loadArchivedPatients"
       /\ hist[j].data = encryptData(1, JSONstringify(ArchiveArg))
       /\ 1 \in GoneKeys(hist[j].after)
       /\ hist[j].key = 2
       /\ hist[j].ret = JArr(<<>>)

\* no call that returned after the i-th and before the j-th was made wrote
\* the item the j-th reads
NoWriteBetween(i, j) ==
    \A k \in (i + 1)..hist[j].after :
       ~(hist[k].wrote > 0 /\ Item(hist[k].op) = Item(hist[j].op))

\* C23: clearAllStorage removes every persisted value: a load (clinical
\* data, patient list, identities, archive, audit log) called after it
\* returned, with no write of that item since, returns the absence value.
C23_ClearAllRemovesAll ==
    \A i \in 1..Len(hist) : \A j \in 1..Len(hist) :
       (/\ hist[i].op \in {"clearAllStorage", "storage.clearAllStorage"}
        /\ hist[j].op \in AllLoads
        /\ i <= hist[j].after
        /\ NoWriteBetween(i, j))
       => hist[j].ret = AbsenceValue(hist[j].op)

\* C24: save error policy: when encryption or the storage write fails,
\* saveClinicalData fails with an error to its caller and the stored values
\* stay as they were, while savePatientList, savePatientIdentities,
\* saveArchivedPatients and appendAuditLog return normally.
C24_SaveErrorPolicy ==
    [][\A t \in 1..MaxTasks :
          WriteFails(t) =>
             /\ store' = store
             /\ hist'[Len(hist')].op = tasks[t].op
             /\ hist'[Len(hist')].ret =
                   (IF tasks[t].op = "saveClinicalData" THEN SaveError ELSE JNull)]_vars

\* a saveClinicalData call has failed with the error and a savePatientList
\* call has failed and returned normally, neither having written
C24_Witness ==
    /\ \E j \in 1..Len(hist) :
          hist[j].op = "saveClinicalData" /\ hist[j].wrote = 0 /\ hist[j].ret = SaveError
    /\ \E j \in 1..Len(hist) :
          hist[j].op = "savePatientList" /\ hist[j].wrote = 0 /\ hist[j].ret = JNull

\* the stored entries of the kind "valid", in their order
ValidEntries(value, kinds) ==
    SelectSeq([i \in 1..Len(kinds) |-> [e |-> value.v[i], kind |-> kinds[i]]],
              LAMBDA r : r.kind = "valid")

\* C30: loadPatientIdentities returns exactly the stored entries whose value
\* passes PatientIdentitySchema, an invalid entry being dropped without the
\* valid ones; loadPatientListClinical and loadArchivedPatients return the
\* empty list when any one element is invalid, and the stored list otherwise.
C30_PartialMapWholeLists ==
    pc = "loaded" =>
       IF parsed = "loadPatientIdentities"
       THEN result = JObj([i \in 1..Len(ValidEntries(payload, chunkList)) |->
                              ValidEntries(payload, chunkList)[i].e])
       ELSE result = (IF \A i \in 1..Len(chunkList) : chunkList[i] = "valid"
                      THEN payload ELSE JArr(<<>>))

\* an identity map with an invalid entry between two valid ones was loaded:
\* the two valid entries were returned
C30_Witness ==
    /\ pc = "loaded"
    /\ parsed = "loadPatientIdentities"
    /\ chunkList = <<"valid", "missing", "valid">>
    /\ result = JObj(<<Member(<<"p", "1">>, FullIdentity(<<"a">>)),
                       Member(<<"p", "3">>, FullIdentity(<<"a">>))>>)

\* ------------------------------------------------------------------------
\* PatientProvider (context/PatientContext.tsx): the patients list, the
\* identity map in RAM, the load effect and the save effect over the patient
\* list of lib/storage.ts
\* ------------------------------------------------------------------------
MaxRecords == 2

MaxSaving == 2

MaxReloads == 1

MaxKeys == 2

emptyPatientIdentity == PatientIdentity(<<>>, JNull, FALSE)

emptyClinicalData == ClinicalData(<<>>, <<>>)

\* crypto.randomUUID() of the n-th record created: no two are equal
randomUUID(n) == <<"p">> \o Dec(n)

createPatientRecord(n, identity, clinical) == PatientRecord(randomUUID(n), identity, clinical)

\* the ids of a list of records
Ids(list) == {Get(list[i], K_id).v : i \in 1..Len(list)}

\* {...x, [key]: val}
Spread(x, key, val) ==
    IF \E i \in 1..Len(x.v) : x.v[i].k = key
    THEN JObj([i \in 1..Len(x.v) |-> IF x.v[i].k = key THEN Member(key, val) ELSE x.v[i]])
    ELSE JObj(Append(x.v, Member(key, val)))

\* identitiesRef.current, a Map kept as its entries in insertion order
IdentityKeys(m) == {m[i].k : i \in 1..Len(m)}

IdentitiesGet(m, id) ==
    IF id \in IdentityKeys(m) THEN m[CHOOSE i \in 1..Len(m) : m[i].k = id].x ELSE UNDEFINED

IdentitiesSet(m, id, identity) ==
    IF id \in IdentityKeys(m)
    THEN [i \in 1..Len(m) |-> IF m[i].k = id THEN Member(id, identity) ELSE m[i]]
    ELSE Append(m, Member(id, identity))

IdentitiesDelete(m, id) == SelectSeq(m, LAMBDA e : e.k # id)

\* prev.map(p => p.id === id ? change(p) : p)
MapPatient(prev, id, change(_)) ==
    [i \in 1..Len(prev) |-> IF Get(prev[i], K_id).v = id THEN change(prev[i]) ELSE prev[i]]

\* loadPatientListClinical of lib/storage.ts on the stored item, with the
\* key getOrCreateKey gives: [] without getItem's value, else the parsed text
\* or [] from the catch block
storage_loadPatientListClinical(data, key) ==
    IF Missing(data) THEN JArr(<<>>) ELSE storage_loadListResult(decryptData(key, data))

\* savedClinical.map(c => ({id, identity: emptyPatientIdentity, clinical,
\* reminders: c.reminders || [], createdAt, updatedAt}))
loadedPatients(savedClinical) ==
    [i \in 1..Len(savedClinical.v) |->
        JObj(<<Member(K_id, Get(savedClinical.v[i], K_id)),
               Member(K_identity, emptyPatientIdentity),
               Member(K_clinical, Get(savedClinical.v[i], K_clinical)),
               Member(K_reminders, IF Truthy(Get(savedClinical.v[i], K_reminders))
                                   THEN Get(savedClinical.v[i], K_reminders) ELSE JArr(<<>>)),
               Member(K_createdAt, Get(savedClinical.v[i], K_createdAt)),
               Member(K_updatedAt, Get(savedClinical.v[i], K_updatedAt))>>)]

\* loadedPatients.forEach(p => identitiesRef.current.set(p.id,
\* emptyPatientIdentity)) for the first n records
RECURSIVE SetLoadedIdentities(_, _, _)
SetLoadedIdentities(m, list, n) ==
    IF n = 0 THEN m
    ELSE IdentitiesSet(SetLoadedIdentities(m, list, n - 1), Get(list[n], K_id).v,
                       emptyPatientIdentity)

\* the provider mounts: the state of useState and useRef, the load effect
\* calls loadPatientListClinical, which reads the item and the key before
\* its first await; the save effect finds isLoaded false
Mounted(items, stored, generated) ==
    LET data == items[PATIENT_LIST_KEY]
        k == getOrCreateKey(stored, generated)
    IN  [loading |-> <<storage_loadPatientListClinical(data, k.key)>>,
         sessionKey |-> IF Missing(data) THEN stored ELSE k.key,
         keysGenerated |-> IF ~Missing(data) /\ k.created THEN generated + 1 ELSE generated]

\* the record the first session saved, and the store that holds it
SavedRecord == createPatientRecord(1, emptyPatientIdentity, emptyClinicalData)

ProviderPresets ==
    {[key |-> 0, created |-> 0, items |-> [k \in DOMAIN ItemsUnder(1) |-> Absent]],
     [key |-> 1, created |-> 1,
      items |-> [k \in DOMAIN ItemsUnder(1) |->
                    IF k = PATIENT_LIST_KEY
                    THEN encryptData(1, SaveText("savePatientList", JArr(<<SavedRecord>>)))
                    ELSE Absent]]}

InitProvider ==
    /\ ProtoIdle
    /\ ScannerInit
    /\ PasteIdle
    /\ \E p \in ProviderPresets :
          /\ store = p.items
          /\ created = p.created
          /\ \E m \in {Mounted(p.items, p.key, p.key)} :
                /\ loading = m.loading
                /\ sessionKey = m.sessionKey
                /\ keysGenerated = m.keysGenerated
    /\ tasks = <<>>
    /\ hist = <<>>
    /\ logBase = <<>>
    /\ patients = <<>>
    /\ identities = <<>>
    /\ currentPatientId = <<>>
    /\ isLoaded = FALSE
    /\ saveDue = FALSE
    /\ saving = <<>>
    /\ reloads = 0

\* a handler runs after the effects of the last render have run
Ready == ~saveDue /\ Len(saving) < MaxSaving

\* loadData of the load effect goes on after await loadPatientListClinical()
LoadDone ==
    /\ ~saveDue
    /\ loading # <<>>
    /\ \E savedClinical \in {loading[1]} :
          IF savedClinical.t = "arr" /\ Len(savedClinical.v) > 0
          THEN /\ patients' = loadedPatients(savedClinical)
               /\ identities' = SetLoadedIdentities(identities, loadedPatients(savedClinical),
                                                    Len(savedClinical.v))
          ELSE UNCHANGED <<patients, identities>>
    /\ isLoaded' = TRUE
    /\ loading' = <<>>
    /\ saveDue' = TRUE
    /\ UNCHANGED <<currentPatientId, saving, created, reloads>>
    /\ UNCHANGED <<protoVars, scanVars, pasteVars, storeVars>>

\* the save effect, run after a render in which patients or isLoaded
\* changed: savePatientList(patients) up to the await of encryptData, with
\* the key getOrCreateKey gives
SaveEffect ==
    /\ saveDue
    /\ saveDue' = FALSE
    /\ IF isLoaded /\ Len(patients) > 0
       THEN \E k \in {getOrCreateKey(sessionKey, keysGenerated)} :
               /\ saving' = Append(saving, [key |-> k.key,
                                            text |-> SaveText("savePatientList", JArr(patients))])
               /\ sessionKey' = k.key
               /\ keysGenerated' = IF k.created THEN keysGenerated + 1 ELSE keysGenerated
       ELSE UNCHANGED <<saving, sessionKey, keysGenerated>>
    /\ UNCHANGED <<patients, identities, currentPatientId, isLoaded, loading, created, reloads>>
    /\ UNCHANGED <<store, tasks, hist, logBase>>
    /\ UNCHANGED <<protoVars, scanVars, pasteVars>>

\* a savePatientList call goes on after encryptData: localStorage.setItem
SaveWritten(i) ==
    /\ i \in 1..Len(saving)
    /\ store' = [store EXCEPT ![PATIENT_LIST_KEY] = encryptData(saving[i].key, saving[i].text)]
    /\ saving' = [j \in 1..(Len(saving) - 1) |-> IF j < i THEN saving[j] ELSE saving[j + 1]]
    /\ UNCHANGED <<patients, identities, currentPatientId, isLoaded, loading, saveDue, created,
                   reloads>>
    /\ UNCHANGED <<sessionKey, keysGenerated, tasks, hist, logBase>>
    /\ UNCHANGED <<protoVars, scanVars, pasteVars>>

addPatient ==
    /\ Ready
    /\ created < MaxRecords
    /\ \E newPatient \in {createPatientRecord(created + 1, emptyPatientIdentity,
                                              emptyClinicalData)} :
          /\ identities' = IdentitiesSet(identities, Get(newPatient, K_id).v,
                                         emptyPatientIdentity)
          /\ patients' = Append(patients, newPatient)
          /\ currentPatientId' = Get(newPatient, K_id).v
    /\ created' = created + 1
    /\ saveDue' = TRUE
    /\ UNCHANGED <<isLoaded, loading, saving, reloads>>
    /\ UNCHANGED <<protoVars, scanVars, pasteVars, storeVars>>

removePatient(patientId) ==
    /\ Ready
    /\ identities' = IdentitiesDelete(identities, patientId)
    /\ patients' = SelectSeq(patients, LAMBDA p : Get(p, K_id).v # patientId)
    /\ currentPatientId' = IF currentPatientId = patientId THEN <<>> ELSE currentPatientId
    /\ saveDue' = TRUE
    /\ UNCHANGED <<isLoaded, loading, saving, created, reloads>>
    /\ UNCHANGED <<protoVars, scanVars, pasteVars, storeVars>>

selectPatient(patientId) ==
    /\ Ready
    /\ currentPatientId # patientId
    /\ currentPatientId' = patientId
    /\ UNCHANGED <<patients, identities, isLoaded, loading, saveDue, saving, created, reloads>>
    /\ UNCHANGED <<protoVars, scanVars, pasteVars, storeVars>>

\* updateIdentity({name: 'a'})
updateIdentity ==
    /\ Ready
    /\ currentPatientId # <<>>
    /\ \E current \in {IF IdentitiesGet(identities, currentPatientId) = UNDEFINED
                       THEN emptyPatientIdentity
                       ELSE IdentitiesGet(identities, currentPatientId)} :
          \E updated \in {Spread(current, K_name, JStr(<<"a">>))} :
             /\ identities' = IdentitiesSet(identities, currentPatientId, updated)
             /\ patients' = MapPatient(patients, currentPatientId,
                               LAMBDA p : Spread(Spread(p, K_identity, updated),
                                                 K_updatedAt, JStr(NowISO)))
    /\ saveDue' = TRUE
    /\ UNCHANGED <<currentPatientId, isLoaded, loading, saving, created, reloads>>
    /\ UNCHANGED <<protoVars, scanVars, pasteVars, storeVars>>

\* updateClinical({situation: 's'})
updateClinical ==
    /\ Ready
    /\ currentPatientId # <<>>
    /\ patients' = MapPatient(patients, currentPatientId,
                      LAMBDA p : Spread(Spread(p, K_clinical,
                                               Spread(Spread(Get(p, K_clinical), K_situation,
                                                             JStr(<<"s">>)),
                                                      K_timestamp, JStr(NowISO))),
                                        K_updatedAt, JStr(NowISO)))
    /\ saveDue' = TRUE
    /\ UNCHANGED <<identities, currentPatientId, isLoaded, loading, saving, created, reloads>>
    /\ UNCHANGED <<protoVars, scanVars, pasteVars, storeVars>>

wipeCurrentIdentity ==
    /\ Ready
    /\ currentPatientId # <<>>
    /\ identities' = IdentitiesSet(identities, currentPatientId, emptyPatientIdentity)
    /\ patients' = MapPatient(patients, currentPatientId,
                      LAMBDA p : Spread(p, K_identity, emptyPatientIdentity))
    /\ saveDue' = TRUE
    /\ UNCHANGED <<currentPatientId, isLoaded, loading, saving, created, reloads>>
    /\ UNCHANGED <<protoVars, scanVars, pasteVars, storeVars>>

\* wipeAllSession, with clearAllStorage of lib/storage.ts
wipeAllSession ==
    /\ Ready
    /\ keysGenerated < MaxKeys
    /\ identities' = <<>>
    /\ patients' = <<>>
    /\ currentPatientId' = <<>>
    /\ store' = [k \in DOMAIN store |->
                    IF k \in ClearedItems("storage.clearAllStorage") THEN Absent ELSE store[k]]
    /\ sessionKey' = 0
    /\ saveDue' = TRUE
    /\ UNCHANGED <<isLoaded, loading, saving, created, reloads>>
    /\ UNCHANGED <<keysGenerated, tasks, hist, logBase>>
    /\ UNCHANGED <<protoVars, scanVars, pasteVars>>

\* appendAuditLog(entry) of lib/storage.ts on the stored audit log: the text
\* it stores; existing.push throws when the stored text is no array
storage_appendAuditLog(data, entry) ==
    LET existing == storage_getAuditLogResult(data)
    IN  IF existing.t = "arr" THEN Plain(JSONstringify(JArr(Append(existing.v, entry))))
        ELSE data

\* receiveHandover(payload, receiverId) with the identity IdentityA and the
\* clinical data ClinicalShort, and the audit entry it appends
receiveHandover ==
    /\ Ready
    /\ created < MaxRecords
    /\ \E newPatient \in {createPatientRecord(created + 1, IdentityA, ClinicalShort)} :
          /\ identities' = IdentitiesSet(identities, Get(newPatient, K_id).v, IdentityA)
          /\ patients' = Append(patients, newPatient)
          /\ currentPatientId' = Get(newPatient, K_id).v
    /\ created' = created + 1
    /\ store' = [store EXCEPT ![AUDIT_LOG_KEY] =
                    storage_appendAuditLog(@, LogEntry(Dec(created + 1),
                                                       <<"r", "e", "c", "e", "i", "v", "e", "d">>))]
    /\ saveDue' = TRUE
    /\ UNCHANGED <<isLoaded, loading, saving, reloads>>
    /\ UNCHANGED <<sessionKey, keysGenerated, tasks, hist, logBase>>
    /\ UNCHANGED <<protoVars, scanVars, pasteVars>>

\* the page is reloaded in the same browser session: sessionStorage and
\* localStorage stay, the calls in progress end with the page, the provider
\* mounts again
Reload ==
    /\ reloads < MaxReloads
    /\ reloads' = reloads + 1
    /\ \E m \in {Mounted(store, sessionKey, keysGenerated)} :
          /\ loading' = m.loading
          /\ sessionKey' = m.sessionKey
          /\ keysGenerated' = m.keysGenerated
    /\ patients' = <<>>
    /\ identities' = <<>>
    /\ currentPatientId' = <<>>
    /\ isLoaded' = FALSE
    /\ saveDue' = FALSE
    /\ saving' = <<>>
    /\ UNCHANGED <<created, store, tasks, hist, logBase>>
    /\ UNCHANGED <<protoVars, scanVars, pasteVars>>

NextProvider ==
    \/ LoadDone
    \/ SaveEffect
    \/ \E i \in 1..MaxSaving : SaveWritten(i)
    \/ addPatient
    \/ \E patientId \in Ids(patients) : removePatient(patientId)
    \/ \E patientId \in Ids(patients) \cup {<<>>} : selectPatient(patientId)
    \/ updateIdentity
    \/ updateClinical
    \/ wipeCurrentIdentity
    \/ wipeAllSession
    \/ receiveHandover
    \/ Reload

SpecProvider == InitProvider /\ [][NextProvider]_vars

\* the ids of the patient list a load would now read from localStorage
PersistedIds ==
    LET read == storage_loadPatientListClinical(store[PATIENT_LIST_KEY],
                                                getOrCreateKey(sessionKey, keysGenerated).key)
    IN  IF read.t = "arr" THEN Ids(read.v) ELSE {}

\* C27: after the initial load, once the save effect has run and the saves
\* it started have written, the persisted patient list holds exactly the ids
\* of the patients in memory (so a removed patient is not read back by a
\* reload in the same session)
C27_PersistedFollowsMemory ==
    (isLoaded /\ ~saveDue /\ saving = <<>>) => PersistedIds = Ids(patients)

\* C28: in every state of PatientProvider the keys of the identity map are
\* the ids of the patients list
C28_IdentityKeysArePatientIds == IdentityKeys(identities) = Ids(patients)

\* C29: savePatientList is called only after the initial load has completed,
\* and the patients added or received while the load was pending are in the
\* patients list when the load completes
C29_NoSaveBeforeLoad ==
    [][/\ Len(saving') > Len(saving) => isLoaded
       /\ (~isLoaded /\ isLoaded') => Ids(patients) \subseteq Ids(patients')]_vars

========================================================================
